---- MODULE Spec2Model ----
(***************************************************************************)
(* Model of the Sitzplatz-Manager core: the seat assignment engine         *)
(* (logic/assignment_engine.py), the business rule validator               *)
(* (logic/validator.py), the lock manager (data/lock_manager.py), the     *)
(* undo manager (data/undo_manager.py) and the lock handling of the main   *)
(* window (gui/main_window.py).                                            *)
(*                                                                         *)
(* Python values are modelled as follows.                                  *)
(*   - a list is a sequence, a dict is a function whose DOMAIN is the set  *)
(*     of keys, dict.get(k, d) is Get(f, k, d);                            *)
(*   - a dataclass instance is a record of the fields the code reads;      *)
(*   - an Optional[Seat] is a sequence of length 0 (None) or 1;            *)
(*   - a str that is only compared for equality is a string; a student     *)
(*     name, which sorted() orders, is the sequence of its code points;    *)
(*   - float coordinates are integers;                                     *)
(*   - a text that the code parses is the sequence of its characters.      *)
(***************************************************************************)
EXTENDS Integers, Sequences, FiniteSets, TLC

(***************************************************************************)
(* Bounds of the model.                                                    *)
(***************************************************************************)
MaxStudents == 2
MaxSeats == 2
MaxRooms == 3
MaxAssignments == 3
MaxTicks == 3
MaxPushes == 5
MaxStackSize == 3

VARIABLES
    pc,                    \* position in the running function
    students,              \* argument: List[Student]
    seats,                 \* argument: List[Seat]
    day,                   \* argument of assign_day
    previous_assignments,  \* argument of assign_day: List[Assignment]
    sorted_students,       \* local of assign_day
    idx,                   \* 1-based position of the for loop in sorted_students
    available_seats,       \* local of assign_day: the seat pool
    assignments,           \* local / result of assign_day
    conflicts,             \* local / result of assign_day
    call,                  \* arguments and result of the last find_seat_for_student call
    previous_week,         \* argument of assign_week: Dict[str, List[Assignment]]
    day_idx,               \* 1-based position of "for day in days"
    week_assignments,      \* local / result of assign_week
    week_conflicts,        \* local / result of assign_week
    statistics,            \* result of get_assignment_statistics
    rooms,                 \* argument of validate_room_overlap: List[Room]
    room_i,                \* 1-based position of the outer loop
    room_j,                \* 1-based position of the inner loop
    overlap_conflicts,     \* local of validate_room_overlap
    overlap_result,        \* return value of validate_room_overlap
    assignment_list,       \* argument of validate_assignment_conflicts
    assignments_by_day,    \* local of validate_assignment_conflicts, in insertion order
    group_idx,             \* 1-based position in assignments_by_day.items()
    seat_idx,              \* 1-based position of "for seat in seats"
    invalid_seats,         \* local of validate_all_seats_in_rooms
    validation,            \* return value (or growing result) of a Validator method
    lock_file,             \* content of data.lock: None when the file does not exist
    lock_info,             \* _lock_info of every LockManager
    now,                   \* datetime.utcnow(), in seconds
    ticks,                 \* number of times the clock has advanced
    holder,                \* history: the manager whose acquire_lock succeeded last
                           \* and who has not called release_lock since
    lock_call,             \* history: the last LockManager call, its result, and
                           \* lock_file, holder and now as they were before it
    acquire_pc,            \* position of every manager in its acquire_lock call
    existing_lock,         \* local of acquire_lock: the lock data it has read
    acquire_result,        \* what the acquire_lock call of every manager returned
    window_open,           \* the windows that were constructed and not closed
    window_is_locked,      \* MainWindow.is_locked of every window
    window_lock_user,      \* MainWindow.lock_user of every window
    acquire_returned,      \* history: what acquire_lock returned to _acquire_lock
                           \* of every window
    window_call,           \* history: the last menu command and whether it was refused
    undo_stack,            \* UndoManager.undo_stack, the top is the last element
    redo_stack,            \* UndoManager.redo_stack
    max_states,            \* UndoManager.max_states
    pushes,                \* number of push_state calls so far: time.time()
    pushed,                \* history: the snapshots of all push_state calls, in order
    undo_call              \* history: the last UndoManager call, its result, the
                           \* stacks before it, and the same of the call before

dayVars == <<day, previous_assignments, sorted_students, idx, available_seats,
             assignments, conflicts, call>>

weekVars == <<previous_week, day_idx, week_assignments, week_conflicts, statistics>>

roomVars == <<rooms, room_i, room_j, overlap_conflicts, overlap_result>>

valVars == <<assignment_list, assignments_by_day, group_idx, seat_idx, invalid_seats,
             validation>>

raceVars == <<acquire_pc, existing_lock, acquire_result>>

windowVars == <<window_open, window_is_locked, window_lock_user, acquire_returned,
                window_call>>

lockVars == <<lock_file, lock_info, now, ticks, holder, lock_call, raceVars, windowVars>>

undoVars == <<undo_stack, redo_stack, max_states, pushes, pushed, undo_call>>

extVars == <<valVars, lockVars, undoVars>>

vars == <<pc, students, seats, dayVars, weekVars, roomVars, extVars>>

(***************************************************************************)
(* Python helpers.                                                         *)
(***************************************************************************)
None == << >>

Some(x) == <<x>>

Get(f, k, default) == IF k \in DOMAIN f THEN f[k] ELSE default

EmptyDict == [k \in {} |-> FALSE]

Min(S) == CHOOSE x \in S : \A y \in S : x <= y

\* str.__lt__: lexicographic order on code points
StrLess(a, b) ==
    \E i \in 1..Len(b) :
        /\ \A j \in 1..(i - 1) : j <= Len(a) /\ a[j] = b[j]
        /\ (i > Len(a) \/ a[i] < b[i])

\* tuple.__lt__ for the (int, str) keys of get_priority_sort_key
KeyLess(k1, k2) == k1[1] < k2[1] \/ (k1[1] = k2[1] /\ StrLess(k1[2], k2[2]))

\* list.pop(0) in place of list.remove(x)
ListRemove_pop_first(s, x) == Tail(s)

\* list.remove(x): drops the first element equal to x
ListRemove(s, x) ==
    LET i == Min({j \in DOMAIN s : s[j] = x})
    IN  SubSeq(s, 1, i - 1) \o SubSeq(s, i + 1, Len(s))

WEEK == "2025-W43"

(***************************************************************************)
(* models/student.py, models/seat.py, models/assignment.py                 *)
(***************************************************************************)
\* weekly_pattern.get(day, True)
is_available_on_default_true(student, d) == Get(student.weekly_pattern, d, TRUE)

is_available_on(student, d) == Get(student.weekly_pattern, d, FALSE)

has_property(seat, prop) == Get(seat.properties, prop, FALSE)

Assignment(student_id, seat_id, d, w) ==
    [student_id |-> student_id, seat_id |-> seat_id, day |-> d, week |-> w]

(***************************************************************************)
(* AssignmentEngine                                                        *)
(***************************************************************************)
\* {a.student_id: a.seat_id for a in previous_assignments}: the last entry
\* of a student wins
prev_assignment_map(prev) ==
    [sid \in {prev[i].student_id : i \in DOMAIN prev} |->
        LET last == CHOOSE i \in DOMAIN prev :
                        /\ prev[i].student_id = sid
                        /\ \A j \in DOMAIN prev : prev[j].student_id = sid => j <= i
        IN  prev[last].seat_id]

\* the key without the tier of the previous seat holders
get_priority_sort_key_name_only(student, prev_map) == <<1, student.name>>

get_priority_sort_key(student, prev_map) ==
    <<IF student.id \in DOMAIN prev_map THEN 0 ELSE 1, student.name>>

available_students(studs, d) == SelectSeq(studs, LAMBDA s : is_available_on(s, d))

\* sorted(list, key=...): stable, an element goes behind every element whose
\* key is not greater than its own
SortInsert(s, x, prev_map) ==
    LET kx == get_priority_sort_key(x, prev_map)
        n  == Cardinality({i \in DOMAIN s :
                  ~KeyLess(kx, get_priority_sort_key(s[i], prev_map))})
    IN  SubSeq(s, 1, n) \o <<x>> \o SubSeq(s, n + 1, Len(s))

RECURSIVE sorted(_, _)
sorted(s, prev_map) ==
    IF s = << >> THEN << >>
    ELSE SortInsert(sorted(SubSeq(s, 1, Len(s) - 1), prev_map), s[Len(s)], prev_map)

\* next((s for s in available_seats if s.id == prev_seat_id), None), guarded
\* by "if prev_seat_id:" (None and "" are falsy)
prev_seat(student, prev_map, pool) ==
    IF student.id \in DOMAIN prev_map /\ prev_map[student.id] /= ""
    THEN LET I == {i \in DOMAIN pool : pool[i].id = prev_map[student.id]}
         IN  IF I = {} THEN None ELSE Some(pool[Min(I)])
    ELSE None

perfect_matches(student, pool) ==
    SelectSeq(pool, LAMBDA seat :
        \A r \in DOMAIN student.requirements :
            has_property(seat, student.requirements[r]))

match_count(student, seat) ==
    Cardinality({r \in DOMAIN student.requirements :
                    has_property(seat, student.requirements[r])})

\* list.sort(key=lambda x: x[0]) without reverse=True
SortDescInsert_ascending(s, x) ==
    LET n == Cardinality({i \in DOMAIN s : s[i][1] <= x[1]})
    IN  SubSeq(s, 1, n) \o <<x>> \o SubSeq(s, n + 1, Len(s))

\* list.sort(key=lambda x: x[0], reverse=True): stable, descending
SortDescInsert(s, x) ==
    LET n == Cardinality({i \in DOMAIN s : s[i][1] >= x[1]})
    IN  SubSeq(s, 1, n) \o <<x>> \o SubSeq(s, n + 1, Len(s))

RECURSIVE sort_reverse(_)
sort_reverse(s) ==
    IF s = << >> THEN << >>
    ELSE SortDescInsert(sort_reverse(SubSeq(s, 1, Len(s) - 1)), s[Len(s)])

partial_matches(student, pool) ==
    LET I == {i \in DOMAIN pool : match_count(student, pool[i]) > 0}
        RECURSIVE build(_)
        build(i) ==
            IF i > Len(pool) THEN << >>
            ELSE (IF i \in I THEN <<<<match_count(student, pool[i]), pool[i]>>>>
                  ELSE << >>) \o build(i + 1)
    IN  build(1)

\* the previous seat is not tried first
find_seat_without_previous(student, pool, previous_seat) ==
    IF pool = << >> THEN None
    ELSE IF student.requirements /= << >> /\ perfect_matches(student, pool) /= << >>
    THEN Some(perfect_matches(student, pool)[1])
    ELSE IF student.requirements /= << >> /\ partial_matches(student, pool) /= << >>
    THEN Some(sort_reverse(partial_matches(student, pool))[1][2])
    ELSE Some(pool[1])

\* no fallback to any seat for a student whose requirements no seat meets
find_seat_without_fallback(student, pool, previous_seat) ==
    IF pool = << >> THEN None
    ELSE IF previous_seat /= None /\ \E i \in DOMAIN pool : pool[i] = previous_seat[1]
    THEN previous_seat
    ELSE IF student.requirements /= << >> /\ perfect_matches(student, pool) /= << >>
    THEN Some(perfect_matches(student, pool)[1])
    ELSE IF student.requirements /= << >> /\ partial_matches(student, pool) /= << >>
    THEN Some(sort_reverse(partial_matches(student, pool))[1][2])
    ELSE IF student.requirements /= << >> THEN None
    ELSE Some(pool[1])

\* a perfect match preferred to the previous seat
find_seat_requirements_first(student, pool, previous_seat) ==
    IF pool = << >> THEN None
    ELSE IF student.requirements /= << >> /\ perfect_matches(student, pool) /= << >>
    THEN Some(perfect_matches(student, pool)[1])
    ELSE IF previous_seat /= None /\ \E i \in DOMAIN pool : pool[i] = previous_seat[1]
    THEN previous_seat
    ELSE IF student.requirements /= << >> /\ partial_matches(student, pool) /= << >>
    THEN Some(sort_reverse(partial_matches(student, pool))[1][2])
    ELSE Some(pool[1])

find_seat_for_student(student, pool, previous_seat) ==
    IF pool = << >> THEN None
    ELSE IF previous_seat /= None /\ \E i \in DOMAIN pool : pool[i] = previous_seat[1]
    THEN previous_seat
    ELSE IF student.requirements /= << >> /\ perfect_matches(student, pool) /= << >>
    THEN Some(perfect_matches(student, pool)[1])
    ELSE IF student.requirements /= << >> /\ partial_matches(student, pool) /= << >>
    THEN Some(sort_reverse(partial_matches(student, pool))[1][2])
    ELSE Some(pool[1])

\* one iteration of "for student in sorted_students" on the loop state
\* [available_seats, assignments, conflicts]
AssignStudent(st, student, prev_map, d, w) ==
    LET assigned_seat == find_seat_for_student(student, st.available_seats,
                             prev_seat(student, prev_map, st.available_seats))
    IN  IF assigned_seat /= None
        THEN [available_seats |-> ListRemove(st.available_seats, assigned_seat[1]),
              assignments |-> Append(st.assignments,
                                  Assignment(student.id, assigned_seat[1].id, d, w)),
              conflicts |-> st.conflicts]
        ELSE [st EXCEPT !.conflicts = Append(st.conflicts, student.id)]

RECURSIVE day_loop(_, _, _, _, _)
day_loop(st, studs, prev_map, d, w) ==
    IF studs = << >> THEN st
    ELSE day_loop(AssignStudent(st, Head(studs), prev_map, d, w), Tail(studs),
                  prev_map, d, w)

\* the pool bound to the caller's list itself, in place of a copy of it
caller_seats_shared(sts, pool) == pool

\* available_seats = seats.copy(): the pool is a list of its own, so the list
\* the caller passed is the same after every removal from the pool
caller_seats(sts, pool) == sts

\* the pool assign_day is left with when its loop has ended
assign_day_pool(studs, sts, d, w, prev) ==
    LET prev_map == prev_assignment_map(prev)
    IN  day_loop([available_seats |-> sts, assignments |-> << >>,
                  conflicts |-> << >>],
                 sorted(available_students(studs, d), prev_map),
                 prev_map, d, w).available_seats

\* assign_day as a function of its arguments: <<assignments, conflicts>>
assign_day(studs, sts, d, w, prev) ==
    LET prev_map == prev_assignment_map(prev)
        final == day_loop([available_seats |-> sts, assignments |-> << >>,
                           conflicts |-> << >>],
                          sorted(available_students(studs, d), prev_map),
                          prev_map, d, w)
    IN  <<final.assignments, final.conflicts>>

DAYS == <<"monday", "tuesday", "wednesday", "thursday", "friday", "saturday", "sunday">>

\* the assignments of the weekday before, in place of the same weekday
prev_day_assignments_day_before(previous, d) ==
    LET k == CHOOSE i \in DOMAIN DAYS : DAYS[i] = d
    IN  Get(previous, IF k > 1 THEN DAYS[k - 1] ELSE d, << >>)

\* previous_assignments.get(day, [])
prev_day_assignments(previous, d) == Get(previous, d, << >>)

\* sum(f(v) for v in dict.values()), f given as the function k |-> f(dict[k])
RECURSIVE SumValues(_, _)
SumValues(keys, f) ==
    IF keys = {} THEN 0
    ELSE LET k == CHOOSE x \in keys : TRUE
         IN  f[k] + SumValues(keys \ {k}, f)

\* round(num / den * 100, 2), in units of 0.01: the nearest hundredth, a tie
\* going to the even one
Percent(num, den) ==
    LET q == (num * 10000) \div den
        r == (num * 10000) % den
    IN  IF 2 * r > den \/ (2 * r = den /\ q % 2 = 1) THEN q + 1 ELSE q

total_student_days(studs) ==
    SumValues(DOMAIN studs,
              [i \in DOMAIN studs |->
                  Cardinality({k \in DOMAIN DAYS : is_available_on(studs[i], DAYS[k])})])

\* len(seats), the seven days forgotten
total_seats_one_day(sts) == Len(sts)

\* len(seats) * 7
total_seats(sts) == Len(sts) * 7

\* every day of the conflicts map counted as a day with conflicts
get_assignment_statistics_all_days(assigns, confl, studs, sts) ==
    LET total_assignments == SumValues(DOMAIN assigns,
                                 [k \in DOMAIN assigns |-> Len(assigns[k])])
        total_conflicts == SumValues(DOMAIN confl, [k \in DOMAIN confl |-> Len(confl[k])])
    IN  [total_assignments |-> total_assignments,
         total_conflicts |-> total_conflicts,
         occupancy_rate |-> IF total_seats(sts) > 0
                            THEN Percent(total_assignments, total_seats(sts)) ELSE 0,
         days_with_conflicts |-> Cardinality(DOMAIN confl),
         conflict_rate |-> IF total_student_days(studs) > 0
                           THEN Percent(total_conflicts, total_student_days(studs)) ELSE 0,
         total_seats |-> Len(sts),
         total_students |-> Len(studs)]

get_assignment_statistics(assigns, confl, studs, sts) ==
    LET total_assignments == SumValues(DOMAIN assigns,
                                 [k \in DOMAIN assigns |-> Len(assigns[k])])
        total_conflicts == SumValues(DOMAIN confl, [k \in DOMAIN confl |-> Len(confl[k])])
    IN  [total_assignments |-> total_assignments,
         total_conflicts |-> total_conflicts,
         occupancy_rate |-> IF total_seats(sts) > 0
                            THEN Percent(total_assignments, total_seats(sts)) ELSE 0,
         days_with_conflicts |-> Cardinality({k \in DOMAIN confl : confl[k] /= << >>}),
         conflict_rate |-> IF total_student_days(studs) > 0
                           THEN Percent(total_conflicts, total_student_days(studs)) ELSE 0,
         total_seats |-> Len(sts),
         total_students |-> Len(studs)]

(***************************************************************************)
(* Validator                                                               *)
(***************************************************************************)
\* strict comparisons: rooms that share an edge are reported
rooms_overlap_strict(room1, room2) ==
    ~ \/ room1.x + room1.width < room2.x
      \/ room2.x + room2.width < room1.x
      \/ room1.y + room1.height < room2.y
      \/ room2.y + room2.height < room1.y

\* lines 42-47: the condition under which a pair is appended
rooms_overlap(room1, room2) ==
    ~ \/ room1.x + room1.width <= room2.x
      \/ room2.x + room2.width <= room1.x
      \/ room1.y + room1.height <= room2.y
      \/ room2.y + room2.height <= room1.y

(***************************************************************************)
(* Inputs                                                                  *)
(***************************************************************************)
StudentIdPool == <<"st1", "st2", "st3", "st4">>

SeatIdPool == <<"s1", "s2", "s3", "s4", "s5">>

\* code points of the names "A" and "AB"
Names == {<<65>>, <<65, 66>>}

\* the dataclass default pattern is not used here: one day is assigned
PatternTrue == [monday |-> TRUE]

PatternFalse == [monday |-> FALSE, tuesday |-> TRUE]

PatternAbsent == EmptyDict

RequirementChoices == { << >>, <<"near_window", "near_door", "quiet">> }

PropertyChoices ==
    { EmptyDict,
      [near_window |-> TRUE, near_door |-> FALSE],
      [near_window |-> TRUE, near_door |-> TRUE],
      [near_window |-> TRUE, near_door |-> TRUE, quiet |-> TRUE] }

\* seat a student held before: a seat that may be in the list, or one that
\* was deleted since ("s9"); "-" stands for no previous assignment
PrevChoices == {"-", "s1", "s2", "s9"}

\* students present on the day, in every combination of name, requirements
\* and previous seat, and two kinds of absent students: pattern False (with
\* a previous seat), and no entry for the day (without one)
StudentChoices ==
    [name : Names, weekly_pattern : {PatternTrue},
     requirements : RequirementChoices, prev : PrevChoices]
    \cup
    { [name |-> <<65>>, weekly_pattern |-> PatternFalse,
       requirements |-> << >>, prev |-> "s1"],
      [name |-> <<65>>, weekly_pattern |-> PatternAbsent,
       requirements |-> <<"near_window", "near_door", "quiet">>, prev |-> "-"] }

MkStudents(n, ch) ==
    [i \in 1..n |-> [id |-> StudentIdPool[i], name |-> ch[i].name,
                     weekly_pattern |-> ch[i].weekly_pattern,
                     requirements |-> ch[i].requirements]]

MkSeats(m, pr) == [i \in 1..m |-> [id |-> SeatIdPool[i], properties |-> pr[i]]]

RECURSIVE MkPrev(_, _, _)
MkPrev(n, pv, d) ==
    IF n = 0 THEN << >>
    ELSE MkPrev(n - 1, pv, d) \o
         (IF pv[n] = "-" THEN << >>
          ELSE <<Assignment(StudentIdPool[n], pv[n], d, "2025-W42")>>)

(***************************************************************************)
(* assign_day, one loop iteration per step                                 *)
(***************************************************************************)
\* the variables of a function that is not running
DayIdle ==
    /\ day = "monday"
    /\ previous_assignments = << >>
    /\ sorted_students = << >>
    /\ idx = 0
    /\ available_seats = << >>
    /\ assignments = << >>
    /\ conflicts = << >>
    /\ call = None

WeekIdle ==
    /\ previous_week = EmptyDict
    /\ day_idx = 0
    /\ week_assignments = EmptyDict
    /\ week_conflicts = EmptyDict
    /\ statistics = EmptyDict

RoomIdle ==
    /\ rooms = << >>
    /\ room_i = 0
    /\ room_j = 0
    /\ overlap_conflicts = << >>
    /\ overlap_result = << >>

ValIdle ==
    /\ assignment_list = << >>
    /\ assignments_by_day = << >>
    /\ group_idx = 0
    /\ seat_idx = 0
    /\ invalid_seats = << >>
    /\ validation = << >>

\* no acquire_lock call is followed step by step
RaceIdle ==
    /\ acquire_pc = << >>
    /\ existing_lock = << >>
    /\ acquire_result = << >>

\* no MainWindow was constructed
WindowIdle ==
    /\ window_open = {}
    /\ window_is_locked = << >>
    /\ window_lock_user = << >>
    /\ acquire_returned = << >>
    /\ window_call = << >>

\* no LockManager was constructed
LockIdle ==
    /\ lock_file = << >>
    /\ lock_info = << >>
    /\ now = 0
    /\ ticks = 0
    /\ holder = << >>
    /\ lock_call = << >>
    /\ RaceIdle
    /\ WindowIdle

\* no UndoManager was constructed
UndoIdle ==
    /\ undo_stack = << >>
    /\ redo_stack = << >>
    /\ max_states = 0
    /\ pushes = 0
    /\ pushed = << >>
    /\ undo_call = << >>

ExtIdle == ValIdle /\ LockIdle /\ UndoIdle

InitDay ==
    /\ \E n \in 0..MaxStudents :
         \E ch \in [1..n -> StudentChoices] :
            \* a stored day never has a seat twice (it is an engine result)
            /\ \A i, j \in 1..n : ch[i].prev = ch[j].prev => (i = j \/ ch[i].prev = "-")
            /\ students = MkStudents(n, ch)
            /\ previous_assignments = MkPrev(n, [i \in 1..n |-> ch[i].prev], "monday")
    /\ \E m \in 0..MaxSeats :
         \E pr \in [1..m -> PropertyChoices] : seats = MkSeats(m, pr)
    /\ day = "monday"
    /\ pc = "assign_day"
    /\ sorted_students = << >>
    /\ idx = 0
    /\ available_seats = << >>
    /\ assignments = << >>
    /\ conflicts = << >>
    /\ call = None
    /\ WeekIdle
    /\ RoomIdle
    /\ ExtIdle

\* lines 99-119: lookup, filter, sort, copy of the seat list
DayPrepare ==
    /\ pc = "assign_day"
    /\ sorted_students' = sorted(available_students(students, day),
                                 prev_assignment_map(previous_assignments))
    /\ available_seats' = seats
    /\ assignments' = << >>
    /\ conflicts' = << >>
    /\ idx' = 1
    /\ pc' = "day_loop"
    /\ UNCHANGED <<students, seats, day, previous_assignments, call, weekVars, roomVars, extVars>>

\* lines 122-150: one student
DayAssignStudent ==
    /\ pc = "day_loop"
    /\ idx <= Len(sorted_students)
    /\ LET student == sorted_students[idx]
           prev_map == prev_assignment_map(previous_assignments)
           st == AssignStudent([available_seats |-> available_seats,
                                assignments |-> assignments,
                                conflicts |-> conflicts],
                               student, prev_map, day, WEEK)
           ps == prev_seat(student, prev_map, available_seats)
       IN  /\ available_seats' = st.available_seats
           /\ assignments' = st.assignments
           /\ conflicts' = st.conflicts
           /\ call' = Some([student |-> student, pool |-> available_seats,
                            previous_seat |-> ps,
                            result |-> find_seat_for_student(student, available_seats, ps)])
           /\ seats' = caller_seats(seats, st.available_seats)
    /\ idx' = idx + 1
    /\ UNCHANGED <<students, day, previous_assignments, sorted_students, pc,
                   weekVars, roomVars, extVars>>

\* line 152
DayReturn ==
    /\ pc = "day_loop"
    /\ idx > Len(sorted_students)
    /\ pc' = "day_done"
    /\ UNCHANGED <<students, seats, dayVars, weekVars, roomVars, extVars>>

NextDay == DayPrepare \/ DayAssignStudent \/ DayReturn

SpecDay == InitDay /\ [][NextDay]_vars

(***************************************************************************)
(* assign_week followed by get_assignment_statistics, as planning_tab.py   *)
(* calls them; one day per step                                            *)
(***************************************************************************)
PatternDefault ==
    [monday |-> TRUE, tuesday |-> TRUE, wednesday |-> TRUE, thursday |-> TRUE,
     friday |-> TRUE, saturday |-> FALSE, sunday |-> FALSE]

PatternWeekend == [saturday |-> TRUE, sunday |-> TRUE, monday |-> TRUE]

WeekStudentChoices ==
    [name : Names,
     weekly_pattern : {PatternDefault, PatternWeekend},
     requirements : RequirementChoices]
    \cup
    { [name |-> <<65>>, weekly_pattern |-> PatternFalse, requirements |-> << >>],
      [name |-> <<65>>, weekly_pattern |-> PatternAbsent, requirements |-> << >>] }

WeekPropertyChoices ==
    { EmptyDict, [near_window |-> TRUE, near_door |-> TRUE, quiet |-> TRUE] }

Prev(student_id, seat_id, d) == Assignment(student_id, seat_id, d, "2025-W42")

\* the stored assignments of the week before: none, or the days of an
\* earlier engine run (a student or a seat may have been deleted since)
PrevWeekChoices ==
    { EmptyDict,
      [monday |-> <<Prev("st1", "s2", "monday")>>],
      [monday |-> <<Prev("st2", "s1", "monday"), Prev("st1", "s2", "monday")>>,
       tuesday |-> <<Prev("st2", "s9", "tuesday")>>,
       wednesday |-> << >>],
      [tuesday |-> <<Prev("st1", "s2", "tuesday")>>,
       saturday |-> <<Prev("st2", "s2", "saturday"), Prev("st3", "s1", "saturday")>>,
       sunday |-> <<Prev("st1", "s1", "sunday")>>] }

InitWeek ==
    /\ \E n \in 0..MaxStudents :
         \E ch \in [1..n -> WeekStudentChoices] : students = MkStudents(n, ch)
    /\ \E m \in 0..MaxSeats :
         \E pr \in [1..m -> WeekPropertyChoices] : seats = MkSeats(m, pr)
    /\ previous_week \in PrevWeekChoices
    /\ pc = "assign_week"
    /\ day_idx = 0
    /\ week_assignments = EmptyDict
    /\ week_conflicts = EmptyDict
    /\ statistics = EmptyDict
    /\ DayIdle
    /\ RoomIdle
    /\ ExtIdle

\* lines 41-48
WeekStart ==
    /\ pc = "assign_week"
    /\ week_assignments' = EmptyDict
    /\ week_conflicts' = EmptyDict
    /\ day_idx' = 1
    /\ pc' = "week_loop"
    /\ UNCHANGED <<students, seats, previous_week, statistics, dayVars, roomVars, extVars>>

\* lines 50-64: one day
WeekAssignDay ==
    /\ pc = "week_loop"
    /\ day_idx <= Len(DAYS)
    /\ LET d == DAYS[day_idx]
           r == assign_day(students, seats, d, WEEK, prev_day_assignments(previous_week, d))
       IN  /\ week_assignments' = (d :> r[1]) @@ week_assignments
           /\ week_conflicts' = (d :> r[2]) @@ week_conflicts
           /\ seats' = caller_seats(seats, assign_day_pool(students, seats, d, WEEK,
                                        prev_day_assignments(previous_week, d)))
    /\ day_idx' = day_idx + 1
    /\ UNCHANGED <<pc, students, previous_week, statistics, dayVars, roomVars, extVars>>

\* line 66
WeekReturn ==
    /\ pc = "week_loop"
    /\ day_idx > Len(DAYS)
    /\ pc' = "statistics"
    /\ UNCHANGED <<students, seats, weekVars, dayVars, roomVars, extVars>>

\* planning_tab.py lines 167-172: the statistics of the returned week
Statistics ==
    /\ pc = "statistics"
    /\ statistics' = get_assignment_statistics(week_assignments, week_conflicts,
                                               students, seats)
    /\ pc' = "week_done"
    /\ UNCHANGED <<students, seats, previous_week, day_idx, week_assignments,
                   week_conflicts, dayVars, roomVars, extVars>>

NextWeek == WeekStart \/ WeekAssignDay \/ WeekReturn \/ Statistics

SpecWeek == InitWeek /\ [][NextWeek]_vars

(***************************************************************************)
(* validate_room_overlap, one pair of rooms per step                       *)
(***************************************************************************)
RoomIdPool == <<"r1", "r2", "r3", "r4">>

\* rooms drawn on the canvas have a positive width and height
RoomChoices == [x : {0, 1, 2}, y : {0, 1}, width : {1, 2}, height : {1, 2}]

MkRooms(n, ch) ==
    [i \in 1..n |-> [id |-> RoomIdPool[i], x |-> ch[i].x, y |-> ch[i].y,
                     width |-> ch[i].width, height |-> ch[i].height]]

InitRooms ==
    /\ \E n \in 0..MaxRooms : \E ch \in [1..n -> RoomChoices] : rooms = MkRooms(n, ch)
    /\ pc = "validate_room_overlap"
    /\ room_i = 0
    /\ room_j = 0
    /\ overlap_conflicts = << >>
    /\ overlap_result = << >>
    /\ students = << >>
    /\ seats = << >>
    /\ DayIdle
    /\ WeekIdle
    /\ ExtIdle

\* line 35, and the first "for i, room1 in enumerate(rooms)"
OverlapStart ==
    /\ pc = "validate_room_overlap"
    /\ overlap_conflicts' = << >>
    /\ room_i' = 1
    /\ room_j' = 2
    /\ pc' = "overlap_loop"
    /\ UNCHANGED <<rooms, overlap_result, students, seats, dayVars, weekVars, extVars>>

\* lines 38-48: one room2 of rooms[i+1:]
OverlapCheckPair ==
    /\ pc = "overlap_loop"
    /\ room_i <= Len(rooms)
    /\ room_j <= Len(rooms)
    /\ overlap_conflicts' =
          IF rooms_overlap(rooms[room_i], rooms[room_j])
          THEN Append(overlap_conflicts, <<rooms[room_i].id, rooms[room_j].id>>)
          ELSE overlap_conflicts
    /\ room_j' = room_j + 1
    /\ UNCHANGED <<pc, rooms, room_i, overlap_result, students, seats, dayVars, weekVars, extVars>>

\* line 37: rooms[i+1:] is exhausted, the next room1
OverlapNextRoom ==
    /\ pc = "overlap_loop"
    /\ room_i <= Len(rooms)
    /\ room_j > Len(rooms)
    /\ room_i' = room_i + 1
    /\ room_j' = room_i + 2
    /\ UNCHANGED <<pc, rooms, overlap_conflicts, overlap_result, students, seats,
                   dayVars, weekVars, extVars>>

\* line 50
OverlapReturn ==
    /\ pc = "overlap_loop"
    /\ room_i > Len(rooms)
    /\ overlap_result' = <<Len(overlap_conflicts) = 0, overlap_conflicts>>
    /\ pc' = "overlap_done"
    /\ UNCHANGED <<rooms, room_i, room_j, overlap_conflicts, students, seats,
                   dayVars, weekVars, extVars>>

NextRooms == OverlapStart \/ OverlapCheckPair \/ OverlapNextRoom \/ OverlapReturn

SpecRooms == InitRooms /\ [][NextRooms]_vars

(***************************************************************************)
(* validate_assignment_conflicts: the grouping loop in one step, then one  *)
(* (week, day) group per step                                              *)
(***************************************************************************)
\* the key built from the day alone
group_key_day_only(assignment) == <<assignment.day, assignment.day>>

group_key(assignment) == <<assignment.week, assignment.day>>

\* one iteration of the grouping loop; a dict keeps its keys in insertion
\* order, so assignments_by_day is the sequence of its items
group_append(by_day, assignment) ==
    LET key == group_key(assignment)
    IN  IF \E g \in DOMAIN by_day : by_day[g].key = key
        THEN [g \in DOMAIN by_day |->
                 IF by_day[g].key = key
                 THEN [key |-> key, items |-> Append(by_day[g].items, assignment)]
                 ELSE by_day[g]]
        ELSE Append(by_day, [key |-> key, items |-> <<assignment>>])

RECURSIVE group_by_day(_, _)
group_by_day(by_day, todo) ==
    IF todo = << >> THEN by_day
    ELSE group_by_day(group_append(by_day, Head(todo)), Tail(todo))

\* the seat pass over the assignments of one group, from position i on
RECURSIVE duplicate_seats(_, _, _, _)
duplicate_seats(key, day_assignments, i, seat_usage) ==
    IF i > Len(day_assignments) THEN << >>
    ELSE LET assignment == day_assignments[i]
         IN  IF assignment.seat_id \in DOMAIN seat_usage
             THEN <<[type |-> "duplicate_seat", week |-> key[1], day |-> key[2],
                     seat_id |-> assignment.seat_id,
                     student_ids |-> <<seat_usage[assignment.seat_id],
                                       assignment.student_id>>]>>
                  \o duplicate_seats(key, day_assignments, i + 1, seat_usage)
             ELSE duplicate_seats(key, day_assignments, i + 1,
                                  (assignment.seat_id :> assignment.student_id) @@ seat_usage)

\* the student pass over the assignments of one group, from position i on
RECURSIVE duplicate_students(_, _, _, _)
duplicate_students(key, day_assignments, i, student_usage) ==
    IF i > Len(day_assignments) THEN << >>
    ELSE LET assignment == day_assignments[i]
         IN  IF assignment.student_id \in DOMAIN student_usage
             THEN <<[type |-> "duplicate_student", week |-> key[1], day |-> key[2],
                     student_id |-> assignment.student_id,
                     seat_ids |-> <<student_usage[assignment.student_id],
                                    assignment.seat_id>>]>>
                  \o duplicate_students(key, day_assignments, i + 1, student_usage)
             ELSE duplicate_students(key, day_assignments, i + 1,
                                     (assignment.student_id :> assignment.seat_id)
                                         @@ student_usage)

ConflictAssignmentChoices ==
    { Assignment(st, se, d, w) : st \in {"st1", "st2"}, se \in {"s1", "s2"},
                                 d \in {"monday", "tuesday"}, w \in {WEEK, "2025-W42"} }

InitConflicts ==
    /\ \E n \in 0..MaxAssignments : assignment_list \in [1..n -> ConflictAssignmentChoices]
    /\ pc = "validate_assignment_conflicts"
    /\ assignments_by_day = << >>
    /\ group_idx = 0
    /\ seat_idx = 0
    /\ invalid_seats = << >>
    /\ validation = << >>
    /\ students = << >>
    /\ seats = << >>
    /\ DayIdle
    /\ WeekIdle
    /\ RoomIdle
    /\ LockIdle
    /\ UndoIdle

\* lines 143-151
ConflictsGroup ==
    /\ pc = "validate_assignment_conflicts"
    /\ validation' = << >>
    /\ assignments_by_day' = group_by_day(<< >>, assignment_list)
    /\ group_idx' = 1
    /\ pc' = "conflict_loop"
    /\ UNCHANGED <<assignment_list, seat_idx, invalid_seats, students, seats, dayVars,
                   weekVars, roomVars, lockVars, undoVars>>

\* lines 154-181: one group
ConflictsCheckDay ==
    /\ pc = "conflict_loop"
    /\ group_idx <= Len(assignments_by_day)
    /\ LET group == assignments_by_day[group_idx]
       IN  validation' = validation
                           \o duplicate_seats(group.key, group.items, 1, EmptyDict)
                           \o duplicate_students(group.key, group.items, 1, EmptyDict)
    /\ group_idx' = group_idx + 1
    /\ UNCHANGED <<pc, assignment_list, assignments_by_day, seat_idx, invalid_seats,
                   students, seats, dayVars, weekVars, roomVars, lockVars, undoVars>>

\* line 183
ConflictsReturn ==
    /\ pc = "conflict_loop"
    /\ group_idx > Len(assignments_by_day)
    /\ pc' = "conflicts_done"
    /\ UNCHANGED <<valVars, students, seats, dayVars, weekVars, roomVars, lockVars, undoVars>>

NextConflicts == ConflictsGroup \/ ConflictsCheckDay \/ ConflictsReturn

SpecConflicts == InitConflicts /\ [][NextConflicts]_vars

(***************************************************************************)
(* validate_capacity                                                       *)
(***************************************************************************)
\* sum(1 for s in students if s.is_available_on(day))
RECURSIVE count_available(_, _)
count_available(studs, d) ==
    IF studs = << >> THEN 0
    ELSE (IF is_available_on(Head(studs), d) THEN 1 ELSE 0) + count_available(Tail(studs), d)

\* excess without max(0, ...)
validate_capacity_unclamped(studs, sts, d) ==
    LET students_available == count_available(studs, d)
        seats_count == Len(sts)
    IN  <<students_available <= seats_count,
          [students_count |-> students_available, seats_count |-> seats_count,
           excess |-> students_available - seats_count]>>

validate_capacity(studs, sts, d) ==
    LET students_available == count_available(studs, d)
        seats_count == Len(sts)
        is_valid == students_available <= seats_count
        excess == IF 0 >= students_available - seats_count
                  THEN 0 ELSE students_available - seats_count
    IN  <<is_valid,
          [students_count |-> students_available, seats_count |-> seats_count,
           excess |-> excess]>>

CapacityStudentChoices ==
    [name : {<<65>>}, weekly_pattern : {PatternTrue, PatternFalse, PatternAbsent},
     requirements : {<< >>}]

InitCapacity ==
    /\ \E n \in 0..MaxStudents :
         \E ch \in [1..n -> CapacityStudentChoices] : students = MkStudents(n, ch)
    /\ \E m \in 0..MaxSeats : seats = MkSeats(m, [i \in 1..m |-> EmptyDict])
    /\ day \in {"monday", "tuesday", "sunday"}
    /\ pc = "validate_capacity"
    /\ previous_assignments = << >>
    /\ sorted_students = << >>
    /\ idx = 0
    /\ available_seats = << >>
    /\ assignments = << >>
    /\ conflicts = << >>
    /\ call = None
    /\ WeekIdle
    /\ RoomIdle
    /\ ExtIdle

\* lines 84-95
ValidateCapacity ==
    /\ pc = "validate_capacity"
    /\ validation' = validate_capacity(students, seats, day)
    /\ pc' = "capacity_done"
    /\ UNCHANGED <<assignment_list, assignments_by_day, group_idx, seat_idx, invalid_seats,
                   students, seats, dayVars, weekVars, roomVars, lockVars, undoVars>>

NextCapacity == ValidateCapacity

SpecCapacity == InitCapacity /\ [][NextCapacity]_vars

(***************************************************************************)
(* validate_student_date_range.  valid_from and valid_until are parsed, so *)
(* they are sequences of characters.                                       *)
(***************************************************************************)
UpperCase == <<"A", "B", "C", "D", "E", "F", "G", "H", "I", "J", "K", "L", "M",
               "N", "O", "P", "Q", "R", "S", "T", "U", "V", "W", "X", "Y", "Z">>

LowerCase == <<"a", "b", "c", "d", "e", "f", "g", "h", "i", "j", "k", "l", "m",
               "n", "o", "p", "q", "r", "s", "t", "u", "v", "w", "x", "y", "z">>

\* str.lower()
lower(s) ==
    [i \in DOMAIN s |->
        IF \E k \in DOMAIN UpperCase : UpperCase[k] = s[i]
        THEN LowerCase[CHOOSE k \in DOMAIN UpperCase : UpperCase[k] = s[i]]
        ELSE s[i]]

Ongoing == <<"o", "n", "g", "o", "i", "n", "g">>

Digits == <<"0", "1", "2", "3", "4", "5", "6", "7", "8", "9">>

IsDigit(c) == \E k \in DOMAIN Digits : Digits[k] = c

DigitValue(c) == (CHOOSE k \in DOMAIN Digits : Digits[k] = c) - 1

\* int() of a string of digits
RECURSIVE int(_)
int(s) == IF s = << >> THEN 0 ELSE 10 * int(SubSeq(s, 1, Len(s) - 1)) + DigitValue(s[Len(s)])

\* %Y of strptime: \d\d\d\d
MatchesYear(s) == Len(s) = 4 /\ \A i \in DOMAIN s : IsDigit(s[i])

\* %m of strptime: 1[0-2]|0[1-9]|[1-9]
MatchesMonth(s) ==
    \/ Len(s) = 2 /\ s[1] = "1" /\ s[2] \in {"0", "1", "2"}
    \/ Len(s) = 2 /\ s[1] = "0" /\ IsDigit(s[2]) /\ s[2] # "0"
    \/ Len(s) = 1 /\ IsDigit(s[1]) /\ s[1] # "0"

\* %d of strptime: 3[01]|[12]\d|0[1-9]|[1-9]| [1-9]
MatchesDay(s) ==
    \/ Len(s) = 2 /\ s[1] = "3" /\ s[2] \in {"0", "1"}
    \/ Len(s) = 2 /\ s[1] \in {"1", "2"} /\ IsDigit(s[2])
    \/ Len(s) = 2 /\ s[1] \in {"0", " "} /\ IsDigit(s[2]) /\ s[2] # "0"
    \/ Len(s) = 1 /\ IsDigit(s[1]) /\ s[1] # "0"

IsLeap(y) == y % 4 = 0 /\ (y % 100 # 0 \/ y % 400 = 0)

DaysInMonth(y, m) ==
    IF m = 2 THEN (IF IsLeap(y) THEN 29 ELSE 28)
    ELSE IF m \in {4, 6, 9, 11} THEN 30 ELSE 31

\* datetime.strptime(s, "%Y-%m-%d"): the date as <<year, month, day>>, or
\* None where strptime raises ValueError (the text does not match the
\* format as a whole, or the numbers are not a date)
strptime(s) ==
    LET dashes == {i \in DOMAIN s : s[i] = "-"}
    IN  IF Cardinality(dashes) # 2 THEN None
        ELSE LET d1 == CHOOSE i \in dashes : \A j \in dashes : i <= j
                 d2 == CHOOSE i \in dashes : \A j \in dashes : j <= i
                 ys == SubSeq(s, 1, d1 - 1)
                 ms == SubSeq(s, d1 + 1, d2 - 1)
                 ds == SubSeq(s, d2 + 1, Len(s))
             IN  IF ~(MatchesYear(ys) /\ MatchesMonth(ms) /\ MatchesDay(ds)) THEN None
                 ELSE LET y == int(ys)
                          m == int(ms)
                          d == int(IF ds[1] = " " THEN Tail(ds) ELSE ds)
                      IN  IF y >= 1 /\ d <= DaysInMonth(y, m)
                          THEN Some(<<y, m, d>>) ELSE None

\* datetime.__gt__
DateGreater(a, b) ==
    \/ a[1] > b[1]
    \/ a[1] = b[1] /\ a[2] > b[2]
    \/ a[1] = b[1] /\ a[2] = b[2] /\ a[3] > b[3]

\* the f-string of line 122, as the sequence of its parts
AfterMessage(valid_from, valid_until) ==
    <<"valid_from (", valid_from, ") is after valid_until (", valid_until, ")">>

\* the f-string of line 127; str(e) is the text of the ValueError
InvalidFormatMessage == <<"Invalid date format: ", "str(e)">>

\* "ongoing" compared without lower(), and >= in place of >
validate_student_date_range_strict(student) ==
    IF student.valid_until = Ongoing THEN <<TRUE, None>>
    ELSE LET date_from == strptime(student.valid_from)
             date_until == strptime(student.valid_until)
         IN  IF date_from = None \/ date_until = None
             THEN <<FALSE, InvalidFormatMessage>>
             ELSE IF ~DateGreater(date_until[1], date_from[1])
                  THEN <<FALSE, AfterMessage(student.valid_from, student.valid_until)>>
                  ELSE <<TRUE, None>>

validate_student_date_range(student) ==
    IF lower(student.valid_until) = Ongoing THEN <<TRUE, None>>
    ELSE LET date_from == strptime(student.valid_from)
             date_until == strptime(student.valid_until)
         IN  IF date_from = None \/ date_until = None
             THEN <<FALSE, InvalidFormatMessage>>
             ELSE IF DateGreater(date_from[1], date_until[1])
                  THEN <<FALSE, AfterMessage(student.valid_from, student.valid_until)>>
                  ELSE <<TRUE, None>>

DateTexts ==
    { <<"2", "0", "2", "5", "-", "0", "1", "-", "0", "1">>,
      <<"2", "0", "2", "5", "-", "1", "2", "-", "3", "1">>,
      <<"2", "0", "2", "5", "-", "0", "6", "-", "0", "1">>,
      <<"2", "0", "2", "5", "-", "6", "-", "1">>,
      <<"2", "0", "2", "4", "-", "0", "2", "-", "2", "9">>,
      <<"2", "0", "2", "5", "-", "0", "2", "-", "2", "9">>,
      <<"2", "0", "2", "5", "-", "1", "3", "-", "0", "1">>,
      <<"0", "1", "-", "0", "1", "-", "2", "0", "2", "5">>,
      <<"2", "0", "2", "5", "-", "0", "1", "-", "0", "1", "0">>,
      << >> }

OngoingTexts ==
    { <<"o", "n", "g", "o", "i", "n", "g">>,
      <<"O", "n", "g", "o", "i", "n", "g">>,
      <<"O", "N", "G", "O", "I", "N", "G">>,
      <<"o", "n", "g", "o", "i", "n", "g", "!">> }

InitDateRange ==
    /\ \E vf \in DateTexts \cup {Ongoing} : \E vu \in DateTexts \cup OngoingTexts :
          students = <<[id |-> "st1", valid_from |-> vf, valid_until |-> vu]>>
    /\ seats = << >>
    /\ pc = "validate_student_date_range"
    /\ DayIdle
    /\ WeekIdle
    /\ RoomIdle
    /\ ExtIdle

\* lines 113-127
ValidateDateRange ==
    /\ pc = "validate_student_date_range"
    /\ validation' = validate_student_date_range(students[1])
    /\ pc' = "date_range_done"
    /\ UNCHANGED <<assignment_list, assignments_by_day, group_idx, seat_idx, invalid_seats,
                   students, seats, dayVars, weekVars, roomVars, lockVars, undoVars>>

NextDateRange == ValidateDateRange

SpecDateRange == InitDateRange /\ [][NextDateRange]_vars

(***************************************************************************)
(* validate_all_seats_in_rooms, one seat per step.  A seat is the record   *)
(* of the fields read here: id, room_id, x, y.                             *)
(***************************************************************************)
\* a room whose right and bottom edges are outside
contains_point_half_open(room, px, py) ==
    /\ room.x <= px /\ px < room.x + room.width
    /\ room.y <= py /\ py < room.y + room.height

contains_point(room, px, py) ==
    /\ room.x <= px /\ px <= room.x + room.width
    /\ room.y <= py /\ py <= room.y + room.height

validate_seat_in_room(seat, room) ==
    IF seat.room_id # room.id THEN FALSE
    ELSE contains_point(room, seat.x, seat.y)

\* {room.id: room for room in rooms}: the last room of an id wins
room_dict(rms) ==
    [rid \in {rms[i].id : i \in DOMAIN rms} |->
        LET last == CHOOSE i \in DOMAIN rms :
                        /\ rms[i].id = rid
                        /\ \A j \in DOMAIN rms : rms[j].id = rid => j <= i
        IN  rms[last]]

Room(id, x, y, width, height) ==
    [id |-> id, x |-> x, y |-> y, width |-> width, height |-> height]

\* the room lists of the floor plan: rooms of the same origin and of
\* different widths
SeatRoomLists ==
    { << >>,
      <<Room("r1", 1, 1, 1, 1)>>,
      <<Room("r1", 1, 1, 1, 1), Room("r2", 1, 1, 3, 1)>>,
      <<Room("r1", 1, 1, 3, 1), Room("r2", 1, 1, 1, 1)>> }

\* positions on the corners, on the edges, inside and outside of the rooms
SeatPositions ==
    { <<1, 1>>, <<2, 2>>, <<0, 1>>, <<4, 2>>, <<5, 1>>, <<1, 0>>, <<2, 3>> }

PlacedSeatChoices == [room_id : {"r1", "r2", "r9"}, pos : SeatPositions]

MkPlacedSeats(m, ch) ==
    [i \in 1..m |-> [id |-> SeatIdPool[i], room_id |-> ch[i].room_id,
                     x |-> ch[i].pos[1], y |-> ch[i].pos[2]]]

InitSeatsInRooms ==
    /\ \E m \in 0..MaxSeats :
         \E ch \in [1..m -> PlacedSeatChoices] : seats = MkPlacedSeats(m, ch)
    /\ rooms \in SeatRoomLists
    /\ pc = "validate_all_seats_in_rooms"
    /\ students = << >>
    /\ room_i = 0
    /\ room_j = 0
    /\ overlap_conflicts = << >>
    /\ overlap_result = << >>
    /\ DayIdle
    /\ WeekIdle
    /\ ExtIdle

\* lines 199-201
SeatsStart ==
    /\ pc = "validate_all_seats_in_rooms"
    /\ invalid_seats' = << >>
    /\ seat_idx' = 1
    /\ pc' = "seat_loop"
    /\ UNCHANGED <<assignment_list, assignments_by_day, group_idx, validation,
                   students, seats, dayVars, weekVars, roomVars, lockVars, undoVars>>

\* lines 203-212: one seat
SeatsCheckSeat ==
    /\ pc = "seat_loop"
    /\ seat_idx <= Len(seats)
    /\ LET seat == seats[seat_idx]
           rd == room_dict(rooms)
       IN  invalid_seats' =
              IF seat.room_id \notin DOMAIN rd
              THEN Append(invalid_seats, seat.id)
              ELSE IF ~validate_seat_in_room(seat, rd[seat.room_id])
                   THEN Append(invalid_seats, seat.id)
                   ELSE invalid_seats
    /\ seat_idx' = seat_idx + 1
    /\ UNCHANGED <<pc, assignment_list, assignments_by_day, group_idx, validation,
                   students, seats, dayVars, weekVars, roomVars, lockVars, undoVars>>

\* line 214
SeatsReturn ==
    /\ pc = "seat_loop"
    /\ seat_idx > Len(seats)
    /\ validation' = <<Len(invalid_seats) = 0, invalid_seats>>
    /\ pc' = "seats_done"
    /\ UNCHANGED <<assignment_list, assignments_by_day, group_idx, seat_idx,
                   invalid_seats, students, seats, dayVars, weekVars, roomVars, lockVars, undoVars>>

NextSeatsInRooms == SeatsStart \/ SeatsCheckSeat \/ SeatsReturn

SpecSeatsInRooms == InitSeatsInRooms /\ [][NextSeatsInRooms]_vars

(***************************************************************************)
(* get_assignment_statistics on per-day maps of any shape                  *)
(***************************************************************************)
StatisticsDays == {"monday", "sunday"}

\* the dicts with some of the days as keys and the given lists as values
StatisticsMaps(lists) == UNION { [D -> lists] : D \in SUBSET StatisticsDays }

StatisticsAssignmentLists ==
    { << >>,
      <<Assignment("st1", "s1", "monday", WEEK)>>,
      <<Assignment("st1", "s1", "monday", WEEK), Assignment("st2", "s2", "monday", WEEK)>> }

StatisticsConflictLists == { << >>, <<"st1">>, <<"st1", "st2">> }

StatisticsStudentChoices ==
    [name : {<<65>>}, weekly_pattern : {PatternDefault, PatternAbsent},
     requirements : {<< >>}]

InitStatistics ==
    /\ \E n \in 0..MaxStudents :
         \E ch \in [1..n -> StatisticsStudentChoices] : students = MkStudents(n, ch)
    /\ \E m \in 0..MaxSeats : seats = MkSeats(m, [i \in 1..m |-> EmptyDict])
    /\ week_assignments \in StatisticsMaps(StatisticsAssignmentLists)
    /\ week_conflicts \in StatisticsMaps(StatisticsConflictLists)
    /\ pc = "statistics"
    /\ previous_week = EmptyDict
    /\ day_idx = 0
    /\ statistics = EmptyDict
    /\ DayIdle
    /\ RoomIdle
    /\ ExtIdle

NextStatistics == Statistics

SpecStatistics == InitStatistics /\ [][NextStatistics]_vars

(***************************************************************************)
(* LockManager (data/lock_manager.py): several managers on one data        *)
(* directory, one public method per step.  The lock file holds the JSON of *)
(* a dict of booleans, strings and integers, which json.load returns as it *)
(* was dumped.  A timestamp is the text isoformat() + "Z", modelled as the *)
(* pair of the time and the suffix; fromisoformat gives the time back.     *)
(***************************************************************************)
LOCK_TIMEOUT_SECONDS == 3600

Managers == {"m1", "m2"}

\* the user argument and the process of each manager
UserOf == [m \in Managers |-> IF m = "m1" THEN "alice" ELSE "bob"]

PidOf == [m \in Managers |-> IF m = "m1" THEN 101 ELSE 102]

\* datetime.utcnow().isoformat() + "Z"
timestamp_text(t) == <<t, "Z">>

_create_lock_data(m, user, current_time) ==
    [locked |-> TRUE, user |-> user, timestamp |-> timestamp_text(current_time),
     pid |-> PidOf[m], hostname |-> "PC-01"]

\* a lock of exactly the timeout age counted as stale
_is_lock_stale_at_timeout(lock_data, current_time) ==
    LET timestamp_str == Get(lock_data, "timestamp", << >>)
    IN  IF timestamp_str = << >> THEN TRUE
        ELSE LET iso == IF timestamp_str[Len(timestamp_str)] = "Z"
                        THEN SubSeq(timestamp_str, 1, Len(timestamp_str) - 1)
                        ELSE timestamp_str
             IN  IF Len(iso) # 1 THEN FALSE
                 ELSE current_time - iso[1] >= LOCK_TIMEOUT_SECONDS

_is_lock_stale(lock_data, current_time) ==
    LET timestamp_str == Get(lock_data, "timestamp", << >>)
    IN  IF timestamp_str = << >> THEN TRUE
        ELSE LET iso == IF timestamp_str[Len(timestamp_str)] = "Z"
                        THEN SubSeq(timestamp_str, 1, Len(timestamp_str) - 1)
                        ELSE timestamp_str
             IN  \* fromisoformat raises on a text that is not a time
                 IF Len(iso) # 1 THEN FALSE
                 ELSE LET age_seconds == current_time - iso[1]
                      IN  age_seconds > LOCK_TIMEOUT_SECONDS

\* the queries, for manager m
is_locked(m) ==
    IF lock_file = None THEN FALSE
    ELSE IF _is_lock_stale(lock_file[1], now) THEN FALSE
    ELSE lock_file # lock_info[m]

get_lock_info(m) ==
    IF lock_file = None THEN None
    ELSE IF _is_lock_stale(lock_file[1], now) THEN None
    ELSE lock_file

is_stale_lock(m) ==
    IF lock_file = None THEN FALSE ELSE _is_lock_stale(lock_file[1], now)

Before == [lock_file |-> lock_file, holder |-> holder, now |-> now]

InitLock ==
    /\ lock_file = None
    /\ lock_info = [m \in Managers |-> None]
    /\ now = 0
    /\ ticks = 0
    /\ holder = None
    /\ lock_call = [op |-> "__init__", manager |-> "-", result |-> None, before |-> None]
    /\ RaceIdle
    /\ WindowIdle
    /\ pc = "lock_manager"
    /\ students = << >>
    /\ seats = << >>
    /\ DayIdle
    /\ WeekIdle
    /\ RoomIdle
    /\ ValIdle
    /\ UndoIdle

\* lines 49-61: the lock file exists and is not stale
AcquireLockHeld(m) ==
    /\ lock_file # None
    /\ ~_is_lock_stale(lock_file[1], now)
    /\ lock_call' = [op |-> "acquire_lock", manager |-> m,
                     result |-> <<FALSE, lock_file>>, before |-> Before]
    /\ UNCHANGED <<lock_file, lock_info, holder>>

\* lines 49-58 and 63-75: no lock file, or a stale one that is removed
AcquireLockFree(m) ==
    /\ IF lock_file = None THEN TRUE ELSE _is_lock_stale(lock_file[1], now)
    /\ LET lock_data == _create_lock_data(m, UserOf[m], now)
       IN  /\ lock_file' = Some(lock_data)
           /\ lock_info' = [lock_info EXCEPT ![m] = Some(lock_data)]
    /\ holder' = Some(m)
    /\ lock_call' = [op |-> "acquire_lock", manager |-> m,
                     result |-> <<TRUE, None>>, before |-> Before]

AcquireLock ==
    /\ \E m \in Managers : AcquireLockHeld(m) \/ AcquireLockFree(m)
    /\ UNCHANGED <<pc, students, seats, now, ticks, raceVars, windowVars, dayVars, weekVars,
                   roomVars, valVars, undoVars>>

\* lines 87-93
ReleaseLock ==
    /\ \E m \in Managers :
          /\ IF lock_file # None
             THEN /\ lock_file' = None
                  /\ lock_info' = [lock_info EXCEPT ![m] = None]
             ELSE UNCHANGED <<lock_file, lock_info>>
          /\ holder' = IF holder = Some(m) THEN None ELSE holder
          /\ lock_call' = [op |-> "release_lock", manager |-> m,
                           result |-> (lock_file # None), before |-> Before]
    /\ UNCHANGED <<pc, students, seats, now, ticks, raceVars, windowVars, dayVars, weekVars,
                   roomVars, valVars, undoVars>>

\* lines 170-183
UpdateLockTimestamp ==
    /\ \E m \in Managers :
          /\ IF lock_file # None /\ lock_info[m] # None
             THEN LET info == [lock_info[m][1] EXCEPT !.timestamp = timestamp_text(now)]
                  IN  /\ lock_info' = [lock_info EXCEPT ![m] = Some(info)]
                      /\ lock_file' = Some(info)
             ELSE UNCHANGED <<lock_file, lock_info>>
          /\ lock_call' = [op |-> "update_lock_timestamp", manager |-> m,
                           result |-> (lock_file # None /\ lock_info[m] # None),
                           before |-> Before]
    /\ UNCHANGED <<pc, students, seats, now, ticks, holder, raceVars, windowVars, dayVars,
                   weekVars, roomVars, valVars, undoVars>>

\* the time between two calls
TickSteps == {1, LOCK_TIMEOUT_SECONDS}

Tick ==
    /\ ticks < MaxTicks
    /\ \E d \in TickSteps : now' = now + d
    /\ ticks' = ticks + 1
    /\ UNCHANGED <<pc, students, seats, lock_file, lock_info, holder, lock_call,
                   raceVars, windowVars, dayVars, weekVars, roomVars, valVars, undoVars>>

NextLock == AcquireLock \/ ReleaseLock \/ UpdateLockTimestamp \/ Tick

SpecLock == InitLock /\ [][NextLock]_vars

(***************************************************************************)
(* UndoManager (data/undo_manager.py), one public method per step.  The    *)
(* state dict given to push_state is a function from some of its keys to   *)
(* values; a value is a string.  time.time() is the number of the push.    *)
(***************************************************************************)
\* StateSnapshot(timestamp=time.time(), floorplan=state.get("floorplan", {}), ...)
StateSnapshot(state, t) ==
    [timestamp |-> t,
     floorplan |-> Get(state, "floorplan", "{}"),
     students |-> Get(state, "students", "[]"),
     assignments |-> Get(state, "assignments", "{}"),
     metadata |-> Get(state, "metadata", "{}")]

to_dict(snapshot) ==
    [floorplan |-> snapshot.floorplan, students |-> snapshot.students,
     assignments |-> snapshot.assignments, metadata |-> snapshot.metadata]

\* list.pop(): the list without its last element
Front(s) == SubSeq(s, 1, Len(s) - 1)

Top(s) == s[Len(s)]

\* push_state that forgets the bound
push_state_unbounded(us, rs, max, state, t) ==
    [undo_stack |-> Append(us, StateSnapshot(state, t)), redo_stack |-> << >>]

\* push_state that keeps the redo stack
push_state_keep_redo(us, rs, max, state, t) ==
    LET appended == Append(us, StateSnapshot(state, t))
    IN  [undo_stack |-> IF Len(appended) > max THEN Tail(appended) ELSE appended,
         redo_stack |-> rs]

push_state(us, rs, max, state, t) ==
    LET appended == Append(us, StateSnapshot(state, t))
    IN  [undo_stack |-> IF Len(appended) > max THEN Tail(appended) ELSE appended,
         redo_stack |-> << >>]

undo(us, rs) ==
    IF us = << >> THEN [undo_stack |-> us, redo_stack |-> rs, result |-> None]
    ELSE LET current == Top(us)
             rest == Front(us)
         IN  [undo_stack |-> rest,
              redo_stack |-> Append(rs, current),
              result |-> IF rest # << >> THEN Some(to_dict(Top(rest))) ELSE None]

\* redo that puts the state below the top of the undo stack
redo_below_top(us, rs) ==
    IF rs = << >> THEN [undo_stack |-> us, redo_stack |-> rs, result |-> None]
    ELSE LET state == Top(rs)
         IN  [undo_stack |-> IF us = << >> THEN <<state>>
                             ELSE Append(Append(Front(us), state), Top(us)),
              redo_stack |-> Front(rs),
              result |-> Some(to_dict(state))]

redo(us, rs) ==
    IF rs = << >> THEN [undo_stack |-> us, redo_stack |-> rs, result |-> None]
    ELSE LET state == Top(rs)
         IN  [undo_stack |-> Append(us, state),
              redo_stack |-> Front(rs),
              result |-> Some(to_dict(state))]

\* "at least one state in undo stack", as the comment of line 155 says
can_undo_nonempty(us) == Len(us) > 0

can_undo(us) == Len(us) > 1

can_redo(rs) == Len(rs) > 0

\* max(0, len(self.undo_stack) - 1)
get_undo_count(us) == IF 0 >= Len(us) - 1 THEN 0 ELSE Len(us) - 1

\* the states the application pushes: a complete one, and one with a
\* missing and an unknown key
StateChoices ==
    { [floorplan |-> "fA", students |-> "sA", assignments |-> "aA", metadata |-> "mA"],
      [floorplan |-> "fB", students |-> "sB", assignments |-> "aB", extra |-> "xB"] }

Stacks == [undo_stack |-> undo_stack, redo_stack |-> redo_stack]

\* the record of a call: the call before it is kept without its own history
Called(op, result) ==
    [op |-> op, result |-> result, before |-> Stacks,
     prev |-> [op |-> undo_call.op, before |-> undo_call.before]]

InitUndo ==
    /\ max_states \in 1..MaxStackSize
    /\ undo_stack = << >>
    /\ redo_stack = << >>
    /\ pushes = 0
    /\ pushed = << >>
    /\ undo_call = [op |-> "__init__", result |-> None,
                    before |-> [undo_stack |-> << >>, redo_stack |-> << >>],
                    prev |-> [op |-> "-",
                              before |-> [undo_stack |-> << >>, redo_stack |-> << >>]]]
    /\ pc = "undo_manager"
    /\ students = << >>
    /\ seats = << >>
    /\ DayIdle
    /\ WeekIdle
    /\ RoomIdle
    /\ ValIdle
    /\ LockIdle

\* lines 73-92
PushState ==
    /\ pushes < MaxPushes
    /\ \E state \in StateChoices :
          LET r == push_state(undo_stack, redo_stack, max_states, state, pushes + 1)
          IN  /\ undo_stack' = r.undo_stack
              /\ redo_stack' = r.redo_stack
              /\ pushed' = Append(pushed, StateSnapshot(state, pushes + 1))
    /\ pushes' = pushes + 1
    /\ undo_call' = Called("push_state", None)
    /\ UNCHANGED <<pc, students, seats, max_states, dayVars, weekVars, roomVars,
                   valVars, lockVars>>

\* lines 105-121
Undo ==
    /\ LET r == undo(undo_stack, redo_stack)
       IN  /\ undo_stack' = r.undo_stack
           /\ redo_stack' = r.redo_stack
           /\ undo_call' = Called("undo", r.result)
    /\ UNCHANGED <<pc, students, seats, max_states, pushes, pushed, dayVars, weekVars,
                   roomVars, valVars, lockVars>>

\* lines 133-143
Redo ==
    /\ LET r == redo(undo_stack, redo_stack)
       IN  /\ undo_stack' = r.undo_stack
           /\ redo_stack' = r.redo_stack
           /\ undo_call' = Called("redo", r.result)
    /\ UNCHANGED <<pc, students, seats, max_states, pushes, pushed, dayVars, weekVars,
                   roomVars, valVars, lockVars>>

\* lines 171-172
Clear ==
    /\ undo_stack' = << >>
    /\ redo_stack' = << >>
    /\ undo_call' = Called("clear", None)
    /\ UNCHANGED <<pc, students, seats, max_states, pushes, pushed, dayVars, weekVars,
                   roomVars, valVars, lockVars>>

NextUndo == PushState \/ Undo \/ Redo \/ Clear

SpecUndo == InitUndo /\ [][NextUndo]_vars

\* the conflicts of the groups from position g on, in the order of the loop
RECURSIVE group_conflicts(_, _)
group_conflicts(by_day, g) ==
    IF g > Len(by_day) THEN << >>
    ELSE duplicate_seats(by_day[g].key, by_day[g].items, 1, EmptyDict)
         \o duplicate_students(by_day[g].key, by_day[g].items, 1, EmptyDict)
         \o group_conflicts(by_day, g + 1)

\* validate_assignment_conflicts as a function of its argument
validate_assignment_conflicts(assignment_seq) ==
    group_conflicts(group_by_day(<< >>, assignment_seq), 1)

(***************************************************************************)
(* acquire_lock of two LockManager instances on one lock file, one file    *)
(* system operation per step.  Each manager calls acquire_lock once; the   *)
(* clock stands still during the calls.                                    *)
(***************************************************************************)
\* a lock file that an earlier run left behind without release_lock
LeftLocks == {_create_lock_data(m, UserOf[m], 0) : m \in Managers}

InitLockRace ==
    /\ lock_file \in {None} \cup {Some(l) : l \in LeftLocks}
    /\ now \in {LOCK_TIMEOUT_SECONDS, LOCK_TIMEOUT_SECONDS + 1}
    /\ lock_info = [m \in Managers |-> None]
    /\ ticks = 0
    /\ holder = None
    /\ lock_call = [op |-> "__init__", manager |-> "-", result |-> None, before |-> None]
    /\ acquire_pc = [m \in Managers |-> "acquire_lock"]
    /\ existing_lock = [m \in Managers |-> None]
    /\ acquire_result = [m \in Managers |-> None]
    /\ WindowIdle
    /\ pc = "lock_race"
    /\ students = << >>
    /\ seats = << >>
    /\ DayIdle
    /\ WeekIdle
    /\ RoomIdle
    /\ ValIdle
    /\ UndoIdle

RaceFrame ==
    UNCHANGED <<pc, students, seats, now, ticks, lock_call, windowVars, dayVars,
                weekVars, roomVars, valVars, undoVars>>

\* line 51: self.lock_file.exists()
AcquireExists(m) ==
    /\ acquire_pc[m] = "acquire_lock"
    /\ acquire_pc' = [acquire_pc EXCEPT ![m] = IF lock_file # None THEN "open" ELSE "write"]
    /\ UNCHANGED <<lock_file, lock_info, holder, existing_lock, acquire_result>>
    /\ RaceFrame

\* lines 52-61: open and json.load, then the staleness test on what was read;
\* open raises FileNotFoundError when the file has gone since line 51
AcquireRead(m) ==
    /\ acquire_pc[m] = "open"
    /\ IF lock_file = None
       THEN /\ acquire_pc' = [acquire_pc EXCEPT ![m] = "raised"]
            /\ UNCHANGED <<existing_lock, acquire_result>>
       ELSE /\ existing_lock' = [existing_lock EXCEPT ![m] = lock_file]
            /\ IF _is_lock_stale(lock_file[1], now)
               THEN /\ acquire_pc' = [acquire_pc EXCEPT ![m] = "unlink"]
                    /\ UNCHANGED acquire_result
               ELSE /\ acquire_pc' = [acquire_pc EXCEPT ![m] = "returned"]
                    /\ acquire_result' = [acquire_result EXCEPT
                                             ![m] = Some(<<FALSE, lock_file>>)]
    /\ UNCHANGED <<lock_file, lock_info, holder>>
    /\ RaceFrame

\* line 58: self.lock_file.unlink(), FileNotFoundError when the file has gone
AcquireUnlink(m) ==
    /\ acquire_pc[m] = "unlink"
    /\ IF lock_file = None
       THEN /\ acquire_pc' = [acquire_pc EXCEPT ![m] = "raised"]
            /\ UNCHANGED lock_file
       ELSE /\ lock_file' = None
            /\ acquire_pc' = [acquire_pc EXCEPT ![m] = "write"]
    /\ UNCHANGED <<lock_info, holder, existing_lock, acquire_result>>
    /\ RaceFrame

\* lines 64-75: open(..., 'w') creates the file or truncates the one that is
\* there, whoever wrote it
AcquireWrite(m) ==
    /\ acquire_pc[m] = "write"
    /\ LET lock_data == _create_lock_data(m, UserOf[m], now)
       IN  /\ lock_file' = Some(lock_data)
           /\ lock_info' = [lock_info EXCEPT ![m] = Some(lock_data)]
    /\ holder' = Some(m)
    /\ acquire_result' = [acquire_result EXCEPT ![m] = Some(<<TRUE, None>>)]
    /\ acquire_pc' = [acquire_pc EXCEPT ![m] = "returned"]
    /\ UNCHANGED existing_lock
    /\ RaceFrame

NextLockRace ==
    \E m \in Managers :
        AcquireExists(m) \/ AcquireRead(m) \/ AcquireUnlink(m) \/ AcquireWrite(m)

SpecLockRace == InitLockRace /\ [][NextLockRace]_vars

(***************************************************************************)
(* MainWindow (gui/main_window.py): the lock of every window and its menu  *)
(* commands.  Every window is a process of its own with a LockManager on   *)
(* the same directory; a window and its manager share a name.              *)
(***************************************************************************)
\* acquire_lock as a function of the lock file and the time: what it
\* returns, the lock file it leaves and the _lock_info it sets
acquire_lock(m, user, file, current_time) ==
    IF file # None /\ ~_is_lock_stale(file[1], current_time)
    THEN [result |-> <<FALSE, file>>, lock_file |-> file, acquired |-> FALSE]
    ELSE [result |-> <<TRUE, None>>,
          lock_file |-> Some(_create_lock_data(m, user, current_time)),
          acquired |-> TRUE]

\* the user every window passes to acquire_lock
WindowUser == "default_user@sitzplatz"

\* getattr(lock_info, "get") on what acquire_lock returned: the value is a
\* tuple, and a tuple has no get
returned_has_get == FALSE

\* lines 89-100 on the value that acquire_lock returned
_acquire_lock(returned, lock_user_before) ==
    IF returned = None
    THEN [is_locked |-> FALSE, lock_user |-> lock_user_before]
    ELSE \* line 95 sets is_locked, line 96 looks up lock_info.get
         IF returned_has_get
         THEN [is_locked |-> TRUE, lock_user |-> Some(returned[2][1].user)]
         ELSE \* AttributeError, lines 98-100
              [is_locked |-> FALSE, lock_user |-> lock_user_before]

\* the commands that test is_locked first
Commands == {"new", "open", "save", "save_as", "undo", "redo"}

InitWindow ==
    /\ lock_file = None
    /\ lock_info = [m \in Managers |-> None]
    /\ now = 0
    /\ ticks = 0
    /\ holder = None
    /\ lock_call = [op |-> "__init__", manager |-> "-", result |-> None, before |-> None]
    /\ RaceIdle
    /\ window_open = {}
    /\ window_is_locked = [w \in Managers |-> FALSE]
    /\ window_lock_user = [w \in Managers |-> None]
    /\ acquire_returned = [w \in Managers |-> None]
    /\ window_call = [op |-> "-", window |-> "-", refused |-> FALSE]
    /\ pc = "main_window"
    /\ students = << >>
    /\ seats = << >>
    /\ DayIdle
    /\ WeekIdle
    /\ RoomIdle
    /\ ValIdle
    /\ UndoIdle

WindowFrame ==
    UNCHANGED <<pc, students, seats, now, ticks, lock_call, raceVars, dayVars, weekVars,
                roomVars, valVars, undoVars>>

\* lines 50-55 and 69-70: a window is constructed and calls _acquire_lock
WindowConstruct(w) ==
    /\ w \notin window_open
    /\ LET r == acquire_lock(w, WindowUser, lock_file, now)
           a == _acquire_lock(r.result, None)
       IN  /\ lock_file' = r.lock_file
           /\ lock_info' = [lock_info EXCEPT ![w] = IF r.acquired THEN r.lock_file ELSE None]
           /\ holder' = IF r.acquired THEN Some(w) ELSE holder
           /\ window_is_locked' = [window_is_locked EXCEPT ![w] = a.is_locked]
           /\ window_lock_user' = [window_lock_user EXCEPT ![w] = a.lock_user]
           /\ acquire_returned' = [acquire_returned EXCEPT ![w] = Some(r.result)]
    /\ window_open' = window_open \cup {w}
    /\ window_call' = [op |-> "__init__", window |-> w, refused |-> FALSE]
    /\ WindowFrame

\* _new_file, _open_file, _save_file, _save_as_file, _undo, _redo: the test
\* of is_locked that each of them starts with
MenuCommand(w) ==
    /\ w \in window_open
    /\ \E op \in Commands :
          window_call' = [op |-> op, window |-> w, refused |-> window_is_locked[w]]
    /\ UNCHANGED <<lock_file, lock_info, holder, window_open, window_is_locked,
                   window_lock_user, acquire_returned>>
    /\ WindowFrame

\* lines 423-439: _save_file, then release_lock, then the window is gone
WindowClose(w) ==
    /\ w \in window_open
    /\ lock_file' = None
    /\ lock_info' = [lock_info EXCEPT ![w] = IF lock_file # None THEN None ELSE @]
    /\ holder' = IF holder = Some(w) THEN None ELSE holder
    /\ window_open' = window_open \ {w}
    /\ window_is_locked' = [window_is_locked EXCEPT ![w] = FALSE]
    /\ window_lock_user' = [window_lock_user EXCEPT ![w] = None]
    /\ acquire_returned' = [acquire_returned EXCEPT ![w] = None]
    /\ window_call' = [op |-> "close", window |-> w, refused |-> window_is_locked[w]]
    /\ WindowFrame

NextWindow ==
    \/ \E w \in Managers : WindowConstruct(w) \/ MenuCommand(w) \/ WindowClose(w)
    \/ Tick

SpecWindow == InitWindow /\ [][NextWindow]_vars

(***************************************************************************)
(* Properties of assign_day                                                *)
(***************************************************************************)
SeqRange(s) == {s[i] : i \in DOMAIN s}

AssignedStudentIds == [i \in DOMAIN assignments |-> assignments[i].student_id]

AssignedSeatIds == [i \in DOMAIN assignments |-> assignments[i].seat_id]

\* the students whose weekly_pattern has the day as a key with value True
AvailablePositions ==
    {i \in DOMAIN students :
        day \in DOMAIN students[i].weekly_pattern /\ students[i].weekly_pattern[day] = TRUE}

AvailableIds == {students[i].id : i \in AvailablePositions}

\* the ids in processing order: the assigned students, then the conflicts
ProcessedIds == AssignedStudentIds \o conflicts

NoRepeat(s) == \A i, j \in DOMAIN s : s[i] = s[j] => i = j

\* C1: when assign_day returns, the student ids of the assignments and the
\* conflicts are exactly the ids of the students whose weekly_pattern[day]
\* is true, each once; a student whose pattern is false or has no entry for
\* the day is in neither list.
C1_Partition ==
    pc = "day_done" =>
        /\ SeqRange(ProcessedIds) = AvailableIds
        /\ NoRepeat(ProcessedIds)
        /\ Len(assignments) + Len(conflicts) = Cardinality(AvailablePositions)

C1_Witness ==
    /\ pc = "day_done"
    /\ \E i \in DOMAIN students : day \notin DOMAIN students[i].weekly_pattern
    /\ Len(assignments) + Len(conflicts) = 1

\* C2: in the assignments of one day no seat id and no student id occurs
\* twice, and every assigned student id and seat id is the id of an input
\* student / seat.
C2_NoDoubleBooking ==
    /\ NoRepeat(AssignedSeatIds)
    /\ NoRepeat(AssignedStudentIds)
    /\ SeqRange(AssignedStudentIds) \subseteq {students[i].id : i \in DOMAIN students}
    /\ SeqRange(AssignedSeatIds) \subseteq {seats[i].id : i \in DOMAIN seats}

C2_Witness ==
    /\ pc = "day_done"
    /\ Len(assignments) = 2
    /\ conflicts = << >>

\* the seat a student held before, read off the argument list
HeldSeat(sid) ==
    {previous_assignments[i].seat_id :
        i \in {j \in DOMAIN previous_assignments :
                  previous_assignments[j].student_id = sid}}

SeatIds == {seats[i].id : i \in DOMAIN seats}

IsAssigned(sid, seat_id) ==
    \E i \in DOMAIN assignments :
        assignments[i].student_id = sid /\ assignments[i].seat_id = seat_id

\* C3 as stated: an available student who held seat X, X being in the seat
\* list, is assigned X whatever the other students are.
C3_Original ==
    pc = "day_done" =>
        \A sid \in AvailableIds : \A x \in HeldSeat(sid) :
            x \in SeatIds => IsAssigned(sid, x)

\* C3 amended: an available student who held seat X, X being in the seat
\* list, is assigned X unless X was given to a student processed earlier.
C3_PreviousSeatKept ==
    pc = "day_done" =>
        \A sid \in AvailableIds : \A x \in HeldSeat(sid) :
            x \in SeatIds =>
                \/ IsAssigned(sid, x)
                \/ \E i, j \in DOMAIN ProcessedIds :
                      /\ i < j
                      /\ ProcessedIds[j] = sid
                      /\ i \in DOMAIN assignments
                      /\ assignments[i].seat_id = x

\* a student keeps a previous seat that is not the first of the list, while
\* another student is assigned as well
C3_Witness ==
    /\ pc = "day_done"
    /\ Len(assignments) = 2
    /\ \E i \in DOMAIN assignments :
          /\ assignments[i].seat_id \in HeldSeat(assignments[i].student_id)
          /\ assignments[i].seat_id /= seats[1].id

\* the number of the student's requirements for which the seat's properties
\* have a true entry
SatisfiedCount(student, seat) ==
    Cardinality({t \in SeqRange(student.requirements) :
                    t \in DOMAIN seat.properties /\ seat.properties[t] = TRUE})

BestPosition(student, pool) ==
    LET best == CHOOSE c \in {SatisfiedCount(student, pool[i]) : i \in DOMAIN pool} :
                    \A i \in DOMAIN pool : SatisfiedCount(student, pool[i]) <= c
    IN  Min({i \in DOMAIN pool : SatisfiedCount(student, pool[i]) = best})

\* C4: a pick for a student whose previous seat is not in the pool returns the
\* earliest seat of the pool among those that satisfy the largest number of
\* the student's requirements (the first seat when no requirement is met or
\* the student has none).
C4_BestMatch ==
    (call /= None /\ call[1].previous_seat = None /\ call[1].pool /= << >>) =>
        call[1].result = Some(call[1].pool[BestPosition(call[1].student, call[1].pool)])

\* a partial match that is neither the first seat of the pool nor a perfect
\* match was picked
C4_Witness ==
    /\ call /= None
    /\ call[1].previous_seat = None
    /\ call[1].result /= None
    /\ call[1].result[1] /= call[1].pool[1]
    /\ SatisfiedCount(call[1].student, call[1].result[1]) > 0
    /\ SatisfiedCount(call[1].student, call[1].result[1])
          < Len(call[1].student.requirements)

IdsOf(studs) == [i \in DOMAIN studs |-> studs[i].id]

SmallerOf(a, b) == IF a <= b THEN a ELSE b

\* C5: assign_day assigns min(available students, seats) students, the first
\* ones in priority order; the conflicts are the remaining ones, and a
\* student becomes a conflict only when the pool is empty.
C5_ConflictsOnlyWhenFull ==
    /\ (call /= None /\ call[1].result = None) => call[1].pool = << >>
    /\ pc = "day_done" =>
         LET n == SmallerOf(Cardinality(AvailablePositions), Len(seats))
         IN  /\ Len(assignments) = n
             /\ AssignedStudentIds = IdsOf(SubSeq(sorted_students, 1, n))
             /\ conflicts = IdsOf(SubSeq(sorted_students, n + 1, Len(sorted_students)))

C5_Witness ==
    /\ pc = "day_done"
    /\ Len(assignments) = 1
    /\ Len(conflicts) = 1
    /\ students[1].id = conflicts[1]

\* the sort key of C6, read off the arguments
Tier(sid) ==
    IF \E i \in DOMAIN previous_assignments : previous_assignments[i].student_id = sid
    THEN 0 ELSE 1

NameOf(sid) == (CHOOSE i \in DOMAIN students : students[i].id = sid)

RECURSIVE NameLeq(_, _)
NameLeq(a, b) ==
    \/ a = << >>
    \/ /\ b /= << >>
       /\ \/ a[1] < b[1]
          \/ a[1] = b[1] /\ NameLeq(Tail(a), Tail(b))

KeyLeq(sid1, sid2) ==
    \/ Tier(sid1) < Tier(sid2)
    \/ /\ Tier(sid1) = Tier(sid2)
       /\ NameLeq(students[NameOf(sid1)].name, students[NameOf(sid2)].name)

\* C6: the students are processed in ascending order of (tier, name), tier 0
\* for the students that occur in previous_assignments; the assignments are
\* in processing order and the conflicts keep that order.
C6_PriorityOrder ==
    pc = "day_done" =>
        /\ \A i, j \in DOMAIN ProcessedIds :
              i < j => KeyLeq(ProcessedIds[i], ProcessedIds[j])
        /\ ProcessedIds = IdsOf(sorted_students)

\* a student with a previous seat goes before one whose name sorts first
C6_Witness ==
    /\ pc = "day_done"
    /\ Len(ProcessedIds) = 2
    /\ Tier(ProcessedIds[1]) = 0
    /\ Tier(ProcessedIds[2]) = 1
    /\ ~NameLeq(students[NameOf(ProcessedIds[1])].name,
                students[NameOf(ProcessedIds[2])].name)

(***************************************************************************)
(* Properties of assign_week and get_assignment_statistics                 *)
(***************************************************************************)
DaySet == {"monday", "tuesday", "wednesday", "thursday", "friday", "saturday", "sunday"}

\* C7: assign_week returns two maps over exactly the seven weekdays, and the
\* entry of each weekday d is the result of assign_day for d with the
\* previous week's assignments of that same weekday (none if d is absent).
C7_WeekIsSevenDays ==
    pc \in {"statistics", "week_done"} =>
        /\ DOMAIN week_assignments = DaySet
        /\ DOMAIN week_conflicts = DaySet
        /\ \A d \in DaySet :
              LET prev == IF d \in DOMAIN previous_week THEN previous_week[d] ELSE << >>
              IN  /\ week_assignments[d] = assign_day(students, seats, d, WEEK, prev)[1]
                  /\ week_conflicts[d] = assign_day(students, seats, d, WEEK, prev)[2]

\* a student keeps the seat of the previous tuesday on tuesday, while on
\* monday, for which the previous week has no entry, the first seat is given
C7_Witness ==
    /\ pc = "week_done"
    /\ "monday" \notin DOMAIN previous_week
    /\ "tuesday" \in DOMAIN previous_week
    /\ Prev("st1", "s2", "tuesday") \in SeqRange(previous_week["tuesday"])
    /\ Assignment("st1", "s2", "tuesday", WEEK) \in SeqRange(week_assignments["tuesday"])
    /\ Assignment("st1", "s1", "monday", WEEK) \in SeqRange(week_assignments["monday"])

StudentDays ==
    {<<i, d>> \in (DOMAIN students) \X DaySet :
        d \in DOMAIN students[i].weekly_pattern /\ students[i].weekly_pattern[d] = TRUE}

\* C8: for the statistics of an assign_week result, occupancy_rate and
\* conflict_rate lie between 0 and 100 percent (rates are in units of 0.01)
\* and are 0 when their denominator is 0; total_assignments <= 7 * |seats|
\* and total_conflicts <= total student-days.
C8_RatesInRange ==
    pc = "week_done" =>
        /\ statistics.occupancy_rate \in 0..10000
        /\ statistics.conflict_rate \in 0..10000
        /\ Len(seats) = 0 => statistics.occupancy_rate = 0
        /\ StudentDays = {} => statistics.conflict_rate = 0
        /\ statistics.total_assignments <= 7 * Len(seats)
        /\ statistics.total_conflicts <= Cardinality(StudentDays)

C8_Witness ==
    /\ pc = "week_done"
    /\ statistics.occupancy_rate > 5000
    /\ statistics.occupancy_rate < 10000
    /\ statistics.conflict_rate > 0

(***************************************************************************)
(* Properties of validate_room_overlap                                     *)
(***************************************************************************)
\* a lies entirely to the left of b (a shared edge included)
EntirelyLeftOf(a, b) == \A px \in a.x..(a.x + a.width), qx \in b.x..(b.x + b.width) : px <= qx

\* a lies entirely above b (a shared edge included)
EntirelyAbove(a, b) == \A py \in a.y..(a.y + a.height), qy \in b.y..(b.y + b.height) : py <= qy

Separated(a, b) ==
    EntirelyLeftOf(a, b) \/ EntirelyLeftOf(b, a) \/ EntirelyAbove(a, b) \/ EntirelyAbove(b, a)

OverlappingPairs ==
    {<<i, j>> \in (DOMAIN rooms) \X (DOMAIN rooms) : i < j /\ ~Separated(rooms[i], rooms[j])}

\* C10: validate_room_overlap returns the pair (rooms[i].id, rooms[j].id),
\* i < j, once for every pair of rooms of which neither lies entirely to the
\* left of, right of, above or below the other, and no other pair; is_valid
\* is True exactly when there is no such pair.
C10_OverlapPairs ==
    pc = "overlap_done" =>
        /\ SeqRange(overlap_result[2]) =
              {<<rooms[p[1]].id, rooms[p[2]].id>> : p \in OverlappingPairs}
        /\ Len(overlap_result[2]) = Cardinality(OverlappingPairs)
        /\ overlap_result[1] = (OverlappingPairs = {})

\* three rooms: the first two share an edge only, the second and the third
\* overlap, and that pair alone is reported
C10_Witness ==
    /\ pc = "overlap_done"
    /\ Len(rooms) = 3
    /\ rooms[1].x + rooms[1].width = rooms[2].x
    /\ rooms[1].y = rooms[2].y
    /\ overlap_result = <<FALSE, << <<"r2", "r3">> >> >>

(***************************************************************************)
(* Properties of validate_assignment_conflicts                             *)
(***************************************************************************)
SameGroup(a, b) == a.week = b.week /\ a.day = b.day

\* the positions whose seat was used earlier in the list in the same group
SeatRepeats ==
    {i \in DOMAIN assignment_list :
        \E j \in 1..(i - 1) : /\ SameGroup(assignment_list[j], assignment_list[i])
                              /\ assignment_list[j].seat_id = assignment_list[i].seat_id}

StudentRepeats ==
    {i \in DOMAIN assignment_list :
        \E j \in 1..(i - 1) : /\ SameGroup(assignment_list[j], assignment_list[i])
                              /\ assignment_list[j].student_id = assignment_list[i].student_id}

\* the first assignment of the group of position i with the same seat / student
FirstOfSeat(i) ==
    Min({j \in 1..i : /\ SameGroup(assignment_list[j], assignment_list[i])
                      /\ assignment_list[j].seat_id = assignment_list[i].seat_id})

FirstOfStudent(i) ==
    Min({j \in 1..i : /\ SameGroup(assignment_list[j], assignment_list[i])
                      /\ assignment_list[j].student_id = assignment_list[i].student_id})

SeatConflictOf(i) ==
    [type |-> "duplicate_seat", week |-> assignment_list[i].week,
     day |-> assignment_list[i].day, seat_id |-> assignment_list[i].seat_id,
     student_ids |-> <<assignment_list[FirstOfSeat(i)].student_id,
                       assignment_list[i].student_id>>]

StudentConflictOf(i) ==
    [type |-> "duplicate_student", week |-> assignment_list[i].week,
     day |-> assignment_list[i].day, student_id |-> assignment_list[i].student_id,
     seat_ids |-> <<assignment_list[FirstOfStudent(i)].seat_id,
                    assignment_list[i].seat_id>>]

ConflictsOfType(t) == {c \in DOMAIN validation : validation[c].type = t}

\* a one-to-one correspondence between the positions in S and the conflicts in T
OneEach(S, T, ConflictOf(_)) ==
    \E f \in [S -> T] :
        /\ \A i, j \in S : f[i] = f[j] => i = j
        /\ \A c \in T : \E i \in S : f[i] = c
        /\ \A i \in S : validation[f[i]] = ConflictOf(i)

\* C11: the result of validate_assignment_conflicts has exactly one
\* duplicate_seat conflict for every assignment whose seat_id was used
\* earlier in the same (week, day) group, exactly one duplicate_student
\* conflict for every assignment whose student_id was used earlier in the
\* same group, and nothing else; it is empty exactly when no group repeats
\* a seat or a student.
C11_DuplicateConflicts ==
    pc = "conflicts_done" =>
        /\ OneEach(SeatRepeats, ConflictsOfType("duplicate_seat"), SeatConflictOf)
        /\ OneEach(StudentRepeats, ConflictsOfType("duplicate_student"), StudentConflictOf)
        /\ \A c \in DOMAIN validation :
              validation[c].type \in {"duplicate_seat", "duplicate_student"}
        /\ (validation = << >>) <=> (SeatRepeats = {} /\ StudentRepeats = {})

\* a seat used three times in one group, one student used twice in it
C11_Witness ==
    /\ pc = "conflicts_done"
    /\ Cardinality(SeatRepeats) = 2
    /\ Cardinality(StudentRepeats) = 1
    /\ Len(validation) = 3

(***************************************************************************)
(* Properties of validate_capacity                                         *)
(***************************************************************************)
\* C12: validate_capacity returns students_count, the number of students
\* available on the day, seats_count, the length of the seat list, is_valid
\* equal to students_count <= seats_count and excess equal to
\* max(0, students_count - seats_count); excess is never negative and is 0
\* exactly when is_valid is True.
C12_Capacity ==
    pc = "capacity_done" =>
        LET is_valid == validation[1]
            details == validation[2]
        IN  /\ details.students_count = Cardinality(AvailablePositions)
            /\ details.seats_count = Len(seats)
            /\ is_valid = (details.students_count <= details.seats_count)
            /\ \/ details.excess = 0 /\ details.students_count <= details.seats_count
               \/ /\ details.excess = details.students_count - details.seats_count
                  /\ details.students_count > details.seats_count
            /\ details.excess >= 0
            /\ (details.excess = 0) <=> is_valid

\* overbooking with an empty seat list and one student who is not available
C12_Witness ==
    /\ pc = "capacity_done"
    /\ seats = << >>
    /\ Len(students) = 2
    /\ validation[1] = FALSE
    /\ validation[2].excess = 1

(***************************************************************************)
(* Properties of validate_student_date_range                               *)
(***************************************************************************)
\* the text is "ongoing" in some letter case
IsOngoing(s) ==
    /\ Len(s) = 7
    /\ s[1] \in {"o", "O"} /\ s[2] \in {"n", "N"} /\ s[3] \in {"g", "G"}
    /\ s[4] \in {"o", "O"} /\ s[5] \in {"i", "I"} /\ s[6] \in {"n", "N"}
    /\ s[7] \in {"g", "G"}

Parses(s) == strptime(s) # None

\* the number of a date in calendar order
DateNumber(s) == LET d == strptime(s)[1] IN 10000 * d[1] + 100 * d[2] + d[3]

\* C13: validate_student_date_range returns (True, None) when valid_until
\* is "ongoing" in any letter case, or when both dates parse and valid_from
\* is not after valid_until; (False, a message naming valid_from and
\* valid_until) when valid_from is after valid_until; (False, a message
\* starting with "Invalid date format") when a date does not parse.
C13_DateRange ==
    pc = "date_range_done" =>
        LET vf == students[1].valid_from
            vu == students[1].valid_until
            is_valid == validation[1]
            error_message == validation[2]
        IN  IF IsOngoing(vu) THEN is_valid /\ error_message = None
            ELSE IF ~Parses(vf) \/ ~Parses(vu)
                 THEN /\ ~is_valid
                      /\ Len(error_message) = 2
                      /\ error_message[1] = "Invalid date format: "
            ELSE IF DateNumber(vf) <= DateNumber(vu)
                 THEN is_valid /\ error_message = None
            ELSE /\ ~is_valid
                 /\ Len(error_message) = 5
                 /\ error_message[1] = "valid_from ("
                 /\ error_message[2] = vf
                 /\ error_message[3] = ") is after valid_until ("
                 /\ error_message[4] = vu

\* equal dates written differently are a valid range
C13_Witness ==
    /\ pc = "date_range_done"
    /\ Parses(students[1].valid_from)
    /\ Parses(students[1].valid_until)
    /\ students[1].valid_from # students[1].valid_until
    /\ DateNumber(students[1].valid_from) = DateNumber(students[1].valid_until)
    /\ validation = <<TRUE, None>>

(***************************************************************************)
(* Properties of validate_all_seats_in_rooms                               *)
(***************************************************************************)
\* the seat lies in the rectangle of a supplied room of its room_id,
\* the edges included
WellPlaced(seat) ==
    \E r \in DOMAIN rooms :
        /\ rooms[r].id = seat.room_id
        /\ rooms[r].x <= seat.x /\ seat.x <= rooms[r].x + rooms[r].width
        /\ rooms[r].y <= seat.y /\ seat.y <= rooms[r].y + rooms[r].height

\* the ids of the seats from position i on that are not well placed
RECURSIVE MisplacedIds(_)
MisplacedIds(i) ==
    IF i > Len(seats) THEN << >>
    ELSE (IF WellPlaced(seats[i]) THEN << >> ELSE <<seats[i].id>>) \o MisplacedIds(i + 1)

Entries(m) == UNION { {<<d, i>> : i \in DOMAIN m[d]} : d \in DOMAIN m }

\* C15: total_assignments is the number of assignments over all days of
\* the map, total_conflicts the number of conflict entries over all days,
\* days_with_conflicts the number of days whose conflict list is not empty,
\* total_seats the length of the seat list and total_students the length of
\* the student list, whatever days the maps have.
C15_Totals ==
    pc = "week_done" =>
        /\ statistics.total_assignments = Cardinality(Entries(week_assignments))
        /\ statistics.total_conflicts = Cardinality(Entries(week_conflicts))
        /\ statistics.days_with_conflicts =
              Cardinality({d \in DOMAIN week_conflicts : Len(week_conflicts[d]) > 0})
        /\ statistics.total_seats = Len(seats)
        /\ statistics.total_students = Len(students)

\* maps of fewer than seven days, one of them with an empty conflict list,
\* and no seat
C15_Witness ==
    /\ pc = "week_done"
    /\ seats = << >>
    /\ DOMAIN week_assignments = {"sunday"}
    /\ DOMAIN week_conflicts = {"monday", "sunday"}
    /\ week_conflicts["monday"] = << >>
    /\ statistics.total_assignments = 2
    /\ statistics.total_conflicts = 2
    /\ statistics.days_with_conflicts = 1

(***************************************************************************)
(* Properties of the LockManager                                           *)
(***************************************************************************)
\* seconds since the timestamp of a lock, now and at the last call
AgeOf(lock_data) == now - lock_data.timestamp[1]

AgeAtCall(lock_data) == lock_call.before.now - lock_data.timestamp[1]

LastIs(op) == lock_call.op = op

\* C16: while a manager holds the lock (its acquire_lock succeeded, it has
\* not called release_lock) and the lock is not stale, acquire_lock by
\* another manager returns (False, lock info naming the holder's user) and
\* leaves the lock file unchanged; after the holder's release_lock the lock
\* file does not exist, and an acquire_lock that finds no lock file returns
\* (True, None) and writes a lock file naming the caller's user.
C16_Exclusion ==
    /\ LastIs("acquire_lock") =>
          LET m == lock_call.manager
              h == lock_call.before.holder
          IN  (h # None /\ h # Some(m) /\ AgeAtCall(lock_info[h[1]][1]) <= LOCK_TIMEOUT_SECONDS)
                 => /\ lock_call.result[1] = FALSE
                    /\ lock_call.result[2] # None
                    /\ lock_call.result[2][1].user = UserOf[h[1]]
                    /\ lock_file = lock_call.before.lock_file
    /\ (LastIs("release_lock") /\ lock_call.before.holder = Some(lock_call.manager))
          => lock_file = None
    /\ (LastIs("acquire_lock") /\ lock_call.before.lock_file = None)
          => /\ lock_call.result = <<TRUE, None>>
             /\ lock_file # None
             /\ lock_file[1].user = UserOf[lock_call.manager]

\* C17: a lock file older than LOCK_TIMEOUT_SECONDS is free for every
\* manager: is_locked() is False, get_lock_info() is None, is_stale_lock()
\* is True, and acquire_lock replaces it by a lock of the caller and returns
\* (True, None); acquire_lock never takes over a lock file whose age is at
\* most the timeout.
C17_StaleLock ==
    /\ (lock_file # None /\ AgeOf(lock_file[1]) > LOCK_TIMEOUT_SECONDS) =>
          \A m \in Managers :
              /\ is_locked(m) = FALSE
              /\ get_lock_info(m) = None
              /\ is_stale_lock(m) = TRUE
    /\ (LastIs("acquire_lock") /\ lock_call.before.lock_file # None) =>
          IF AgeAtCall(lock_call.before.lock_file[1]) > LOCK_TIMEOUT_SECONDS
          THEN /\ lock_call.result = <<TRUE, None>>
               /\ lock_file # None
               /\ lock_file[1].user = UserOf[lock_call.manager]
               /\ AgeAtCall(lock_file[1]) = 0
          ELSE /\ lock_call.result[1] = FALSE
               /\ lock_file = lock_call.before.lock_file

\* bob has just taken over the lock that alice let go stale
C17_Witness ==
    /\ LastIs("acquire_lock")
    /\ lock_call.manager = "m2"
    /\ lock_call.before.lock_file # None
    /\ lock_call.before.lock_file[1].user = "alice"
    /\ AgeAtCall(lock_call.before.lock_file[1]) > LOCK_TIMEOUT_SECONDS
    /\ lock_call.result = <<TRUE, None>>
    /\ lock_file # None
    /\ lock_file[1].user = "bob"

(***************************************************************************)
(* Properties of the UndoManager                                           *)
(***************************************************************************)
\* the last n elements of a sequence
LastN(s, n) == IF Len(s) <= n THEN s ELSE SubSeq(s, Len(s) - n + 1, Len(s))

\* the last call was a push_state made when the undo stack was full
PushedWhenFull ==
    /\ undo_call.op = "push_state"
    /\ Len(undo_call.before.undo_stack) = max_states

\* C18 as stated: the undo stack never holds more than max_states
\* snapshots, and after a push_state made when the stack was full it holds
\* the max_states most recently pushed states in push order.
C18_Original ==
    /\ Len(undo_stack) <= max_states
    /\ PushedWhenFull => undo_stack = LastN(pushed, max_states)

\* C18: the undo stack never holds more than max_states snapshots, redo
\* included; a push_state made when the stack was full drops the oldest
\* snapshot and appends the new one; the snapshots of the stack are pushed
\* states in push order (those undone before a push are not among them).
C18_BoundedStack ==
    /\ Len(undo_stack) <= max_states
    /\ Len(undo_stack) + Len(redo_stack) <= max_states
    /\ PushedWhenFull =>
          undo_stack = Append(Tail(undo_call.before.undo_stack), Top(pushed))
    /\ \A i \in DOMAIN undo_stack :
          /\ \E p \in DOMAIN pushed : pushed[p] = undo_stack[i]
          /\ \A j \in DOMAIN undo_stack :
                i < j => undo_stack[i].timestamp < undo_stack[j].timestamp

\* a push on a full stack after which an undone state is missing from the
\* stack although it is among the max_states most recently pushed
C18_Witness ==
    /\ PushedWhenFull
    /\ Len(undo_stack) = max_states
    /\ undo_stack # LastN(pushed, max_states)
    /\ \E p \in DOMAIN pushed :
          /\ p > Len(pushed) - max_states
          /\ \A i \in DOMAIN undo_stack : undo_stack[i] # pushed[p]

\* C19: immediately after a push_state the redo stack is empty: can_redo()
\* is False and redo() returns None and leaves the undo stack as it is.
C19_PushClearsRedo ==
    /\ undo_call.op = "push_state" =>
          /\ redo_stack = << >>
          /\ ~can_redo(redo_stack)
          /\ redo(undo_stack, redo_stack).result = None
          /\ redo(undo_stack, redo_stack).undo_stack = undo_stack
    /\ (undo_call.op = "redo" /\ undo_call.prev.op = "push_state") =>
          /\ undo_call.result = None
          /\ undo_stack = undo_call.before.undo_stack

\* a redo() right after a push_state that found undone states
C19_Witness ==
    /\ undo_call.op = "redo"
    /\ undo_call.prev.op = "push_state"
    /\ undo_call.prev.before.redo_stack # << >>
    /\ undo_call.result = None
    /\ Len(undo_stack) >= 2

RECURSIVE Undos(_, _)
Undos(st, k) ==
    IF k = 0 THEN st
    ELSE LET r == undo(st.undo_stack, st.redo_stack)
         IN  Undos([undo_stack |-> r.undo_stack, redo_stack |-> r.redo_stack], k - 1)

RECURSIVE Redos(_, _)
Redos(st, k) ==
    IF k = 0 THEN st
    ELSE LET r == redo(st.undo_stack, st.redo_stack)
         IN  Redos([undo_stack |-> r.undo_stack, redo_stack |-> r.redo_stack], k - 1)

\* the last two calls were undo() on at least two states, then redo()
UndoThenRedo ==
    /\ undo_call.op = "redo"
    /\ undo_call.prev.op = "undo"
    /\ Len(undo_call.prev.before.undo_stack) >= 2

\* a redo() after an undo() restores both stacks and returns the state the
\* undo() moved away from
RoundTrip ==
    UndoThenRedo =>
        /\ undo_stack = undo_call.prev.before.undo_stack
        /\ redo_stack = undo_call.prev.before.redo_stack
        /\ undo_call.result = Some(to_dict(Top(undo_call.prev.before.undo_stack)))

\* C20 as stated: undo() then redo() on at least two states is a round
\* trip, and k undos followed by k redos (k less than the size of the undo
\* stack) restore the stacks and leave can_redo() False.
C20_Original ==
    /\ RoundTrip
    /\ \A k \in 1..(Len(undo_stack) - 1) :
          /\ Redos(Undos(Stacks, k), k) = Stacks
          /\ ~can_redo(Redos(Undos(Stacks, k), k).redo_stack)

\* C20: undo() then redo() on at least two states is a round trip, and k
\* undos followed by k redos (k less than the size of the undo stack)
\* restore the stacks, so that can_redo() is what it was before them: False
\* when the redo stack was empty.
C20_UndoRedoRoundTrip ==
    /\ RoundTrip
    /\ \A k \in 1..(Len(undo_stack) - 1) :
          /\ Redos(Undos(Stacks, k), k) = Stacks
          /\ can_redo(Redos(Undos(Stacks, k), k).redo_stack) = can_redo(redo_stack)
          /\ redo_stack = << >> => ~can_redo(Redos(Undos(Stacks, k), k).redo_stack)

\* an undo() and a redo() made while an earlier undone state waits on the
\* redo stack: the stacks are restored and can_redo() is still True
C20_Witness ==
    /\ UndoThenRedo
    /\ undo_call.prev.before.redo_stack # << >>
    /\ redo_stack = undo_call.prev.before.redo_stack
    /\ can_redo(redo_stack)

HeldInPool ==
    {i \in DOMAIN call[1].pool : call[1].pool[i].id \in HeldSeat(call[1].student.id)}

\* C22: a student whose previous seat is in the pool when the student is
\* processed is assigned that seat, whatever the student's requirements and
\* the properties of the other seats of the pool are.
C22_PreviousSeatUnconditional ==
    (call /= None /\ HeldInPool /= {}) =>
        /\ call[1].result /= None
        /\ call[1].result[1].id \in HeldSeat(call[1].student.id)
        /\ assignments /= << >>
        /\ assignments[Len(assignments)].student_id = call[1].student.id
        /\ assignments[Len(assignments)].seat_id = call[1].result[1].id
        /\ \A i \in DOMAIN available_seats :
              available_seats[i].id /= call[1].result[1].id

\* the previous seat meets none of the student's requirements while another
\* seat of the pool meets all of them
C22_Witness ==
    /\ call /= None
    /\ HeldInPool /= {}
    /\ call[1].student.requirements /= << >>
    /\ call[1].result /= None
    /\ SatisfiedCount(call[1].student, call[1].result[1]) = 0
    /\ \E i \in DOMAIN call[1].pool :
          SatisfiedCount(call[1].student, call[1].pool[i])
              = Len(call[1].student.requirements)

(***************************************************************************)
(* C23: assign_day and assign_week leave their arguments as they were      *)
(***************************************************************************)
AvailableOn(d) == available_students(students, d)

\* the student the first assignment of a day belongs to
FirstAssigned(d) ==
    CHOOSE s \in SeqRange(students) : s.id = week_assignments[d][1].student_id

HeldLastWeek(s, d) ==
    {a.seat_id : a \in {x \in SeqRange(prev_day_assignments(previous_week, d)) :
                            x.student_id = s.id}}

\* a day that ran on the whole seat list in its order: it seats as many
\* students as the list has seats for, and a first student with neither a
\* requirement nor a seat of last week gets the first seat of the list
FullPool(d) ==
    LET n == Len(AvailableOn(d))
        m == Len(seats)
    IN  /\ Len(week_assignments[d]) = (IF n <= m THEN n ELSE m)
        /\ Len(week_conflicts[d]) = n - Len(week_assignments[d])
        /\ \A i \in DOMAIN week_assignments[d] :
               week_assignments[d][i].seat_id \in SeatIds
        /\ (/\ week_assignments[d] /= << >>
            /\ FirstAssigned(d).requirements = << >>
            /\ HeldLastWeek(FirstAssigned(d), d) \cap SeatIds = {})
           => week_assignments[d][1].seat_id = seats[1].id

EveryDayFullPool == \A d \in DOMAIN week_assignments : FullPool(d)

\* C23: no step of assign_week (each day's assign_day call included) changes
\* the students list, the seats list or the previous assignments it was
\* given, and every day that has run started from the whole seat list in its
\* original order, whatever the days before it removed from their pools.
C23_InputsUnchanged ==
    [][/\ students' = students
       /\ seats' = seats
       /\ previous_week' = previous_week
       /\ EveryDayFullPool']_vars

\* the week has run, and one seat was assigned on two days
C23_Witness ==
    /\ pc = "week_done"
    /\ Len(seats) = MaxSeats
    /\ \E d1, d2 \in DOMAIN week_assignments :
          /\ d1 /= d2
          /\ Len(week_assignments[d1]) = Len(seats)
          /\ \E i \in DOMAIN week_assignments[d1], j \in DOMAIN week_assignments[d2] :
                week_assignments[d1][i].seat_id = week_assignments[d2][j].seat_id

(***************************************************************************)
(* C26: validate_capacity against the conflicts of assign_day              *)
(***************************************************************************)
\* C26: when assign_day has returned, validate_capacity on the same students,
\* seats and day is valid exactly when the conflicts list is empty, and its
\* excess is the number of conflicts, for every previous assignment list and
\* every requirement list of the inputs.
C26_CapacityMatchesConflicts ==
    pc = "day_done" =>
        LET r == validate_capacity(students, seats, day)
        IN  /\ r[1] <=> (conflicts = << >>)
            /\ r[2].excess = Len(conflicts)
            /\ r[2].students_count = Len(assignments) + Len(conflicts)

\* a day with more students than seats, a seat of last week and a requirement
C26_Witness ==
    /\ pc = "day_done"
    /\ conflicts /= << >>
    /\ assignments /= << >>
    /\ previous_assignments /= << >>
    /\ \E i \in DOMAIN students : students[i].requirements /= << >>
    /\ ~validate_capacity(students, seats, day)[1]
    /\ validate_capacity(students, seats, day)[2].excess = 1

(***************************************************************************)
(* C27: the duplicate validator on the result of assign_week               *)
(***************************************************************************)
\* [a for day in days for a in week_assignments[day]]
RECURSIVE Flattened(_, _)
Flattened(by_day, i) ==
    IF i > Len(DAYS) THEN << >>
    ELSE Get(by_day, DAYS[i], << >>) \o Flattened(by_day, i + 1)

\* C27: for students and seats with unique ids and any assignments of the
\* week before, validate_assignment_conflicts on all the assignments that
\* assign_week returned, taken as one list, reports neither a duplicate_seat
\* nor a duplicate_student conflict.
C27_NoDuplicatesFromEngine ==
    pc = "week_done" =>
        validate_assignment_conflicts(Flattened(week_assignments, 1)) = << >>

\* a returned week in which one day seats two students and both a seat and a
\* student come back on another day
C27_Witness ==
    /\ pc = "week_done"
    /\ previous_week /= EmptyDict
    /\ \E d1, d2 \in DOMAIN week_assignments :
          /\ d1 /= d2
          /\ Len(week_assignments[d1]) = 2
          /\ week_assignments[d2] /= << >>
          /\ \E i \in DOMAIN week_assignments[d1] :
                /\ week_assignments[d1][i].seat_id = week_assignments[d2][1].seat_id
                /\ week_assignments[d1][i].student_id = week_assignments[d2][1].student_id
    /\ Len(group_by_day(<< >>, Flattened(week_assignments, 1))) >= 2
    /\ validate_assignment_conflicts(Flattened(week_assignments, 1)) = << >>

(***************************************************************************)
(* C28: an undo() with nothing to undo                                     *)
(***************************************************************************)
\* C28: an undo() that returns None, on an empty undo stack or on one that
\* holds the current state alone, leaves the undo stack and the redo stack
\* as they were before the call.
C28_UndoNoneChangesNothing ==
    (undo_call.op = "undo" /\ undo_call.result = None) =>
        /\ undo_stack = undo_call.before.undo_stack
        /\ redo_stack = undo_call.before.redo_stack

\* C29: release_lock by a manager that does not hold the lock returns False
\* and leaves the lock file as it is, so the lock of another manager stays
\* until that manager releases it.
C29_OnlyHolderReleases ==
    (LastIs("release_lock") /\ lock_call.before.holder # Some(lock_call.manager)) =>
        /\ lock_call.result = FALSE
        /\ lock_file = lock_call.before.lock_file

\* the lock file records the lock that manager m acquired and still holds
OwnLock(m, b) ==
    /\ b.lock_file # None
    /\ b.holder = Some(m)
    /\ b.lock_file[1].user = UserOf[m]

\* C30: update_lock_timestamp returns True and rewrites the lock file only
\* when the file records the caller's own lock; on the lock of another
\* manager, on a missing file and for a caller that never acquired it
\* returns False and leaves the lock file as it is.
C30_UpdateOwnLockOnly ==
    LastIs("update_lock_timestamp") =>
        IF OwnLock(lock_call.manager, lock_call.before)
        THEN lock_call.result = TRUE
        ELSE /\ lock_call.result = FALSE
             /\ lock_file = lock_call.before.lock_file

(***************************************************************************)
(* C24: two acquire_lock calls that run at the same time                   *)
(***************************************************************************)
\* C24: whatever the order of the steps of two acquire_lock calls on one
\* free or stale lock file, at most one of the calls returns (True, None),
\* and at most one manager has its _lock_info set.
C24_OneWinner ==
    /\ ~(\A m \in Managers : acquire_result[m] = Some(<<TRUE, None>>))
    /\ ~(\A m \in Managers : lock_info[m] # None)

(***************************************************************************)
(* C25: the read-only mode of a window                                     *)
(***************************************************************************)
\* acquire_lock of window w found the lock of another manager
LockRefused(w) == acquire_returned[w] # None /\ acquire_returned[w][1][1] = FALSE

\* C25: a window whose acquire_lock failed on the non-stale lock of another
\* manager is read-only: is_locked is True, lock_user is the user of that
\* lock, and new, open, save, undo and redo are refused; a window whose
\* acquire_lock succeeded has is_locked False.
C25_ReadOnlyWhenLocked ==
    /\ \A w \in window_open :
          acquire_returned[w] # None =>
              IF LockRefused(w)
              THEN /\ window_is_locked[w] = TRUE
                   /\ window_lock_user[w] = Some(acquire_returned[w][1][2][1].user)
              ELSE window_is_locked[w] = FALSE
    /\ (window_call.op \in Commands /\ LockRefused(window_call.window))
          => window_call.refused

====
